---- MODULE Spec2Model ----
(***************************************************************************)
(* A model of Pre3d (src/index.js), its ShapeUtils and PathUtils           *)
(* (src/pre3d_path_utils.js): the render pipeline with its draw buffer,    *)
(* and the procedural mesh operators.                                      *)
(*                                                                         *)
(* Numbers.  A JavaScript number is modelled as a binary fixed-point       *)
(* value: the integer n stands for n / Unit.  Sums are exact, products     *)
(* and quotients are rounded towards zero, as a float rounds them, only    *)
(* coarser.  NaN, +Infinity and -Infinity are kept as values of their      *)
(* own, and so is `undefined', which is what reading the z of a 2d         *)
(* point {x, y} gives.  Zero is unsigned.                                  *)
(*                                                                         *)
(* Objects.  Points, QuadFaces and RGBA colours that the code shares by    *)
(* reference or writes in place live in heaps (pts, faces, rgba) and are   *)
(* named by ids; null is the id/index `null'.                              *)
(***************************************************************************)
EXTENDS Integers, Sequences, FiniteSets, TLC

Unit == 2 * 2 * 2 * 2 * 2 * 2
NaN == 2 ^ 30
PInf == (2 ^ 30) - 1
NInf == 1 - (2 ^ 30)
Undefined == (2 ^ 30) + 1
null == (2 ^ 30) + 2

\* n as a number of the program
Num(n) == n * Unit

IsNaN(a) == a = NaN \/ a = Undefined
IsInf(a) == a = PInf \/ a = NInf
IsFin(a) == NInf < a /\ a < PInf
Sgn(a) == IF a = PInf THEN 1 ELSE IF a = NInf THEN 0 - 1
          ELSE IF a > 0 THEN 1 ELSE IF a < 0 THEN 0 - 1 ELSE 0
\* integer quotient rounded towards zero, b > 0
Trunc(a, b) == IF a >= 0 THEN a \div b ELSE 0 - ((0 - a) \div b)
SignedInf(s) == IF s > 0 THEN PInf ELSE NInf

\* -a
Neg(a) == IF IsFin(a) THEN 0 - a
          ELSE IF a = PInf THEN NInf ELSE IF a = NInf THEN PInf ELSE NaN
\* a + b
Add(a, b) == IF IsFin(a) /\ IsFin(b) THEN a + b
             ELSE IF IsNaN(a) \/ IsNaN(b) THEN NaN
             ELSE IF IsInf(a) /\ IsInf(b) THEN (IF a = b THEN a ELSE NaN)
             ELSE IF IsInf(a) THEN a
             ELSE b
\* a - b
Sub(a, b) == IF IsFin(a) /\ IsFin(b) THEN a - b ELSE Add(a, Neg(b))
\* a * b
Mul(a, b) == IF IsFin(a) /\ IsFin(b) THEN Trunc(a * b, Unit)
             ELSE IF IsNaN(a) \/ IsNaN(b) THEN NaN
             ELSE IF Sgn(a) * Sgn(b) = 0 THEN NaN
             ELSE SignedInf(Sgn(a) * Sgn(b))
\* a / b
Div(a, b) == IF IsFin(a) /\ IsFin(b) /\ b # 0
             THEN (IF b > 0 THEN Trunc(a * Unit, b)
                   ELSE Trunc(0 - (a * Unit), 0 - b))
             ELSE IF IsNaN(a) \/ IsNaN(b) THEN NaN
             ELSE IF IsInf(a) /\ IsInf(b) THEN NaN
             ELSE IF IsInf(a)
                  THEN SignedInf(Sgn(a) * (IF b < 0 THEN 0 - 1 ELSE 1))
             ELSE IF IsInf(b) THEN 0
             ELSE IF a = 0 THEN NaN ELSE SignedInf(Sgn(a))
\* a > b, a >= b, a < b: false when either side is NaN
Gt(a, b) == ~IsNaN(a) /\ ~IsNaN(b) /\ a > b
Ge(a, b) == ~IsNaN(a) /\ ~IsNaN(b) /\ a >= b
Lt(a, b) == ~IsNaN(a) /\ ~IsNaN(b) /\ a < b

RECURSIVE ISqrt(_, _, _)
\* the largest r in lo..hi with r * r <= n, by bisection
ISqrt(n, lo, hi) ==
  IF lo >= hi THEN lo
  ELSE LET mid == (lo + hi + 1) \div 2
       IN IF mid * mid <= n THEN ISqrt(n, mid, hi) ELSE ISqrt(n, lo, mid - 1)
\* Math.sqrt
Sqrt(a) == IF IsNaN(a) THEN NaN
           ELSE IF a = PInf THEN PInf
           ELSE IF a < 0 THEN NaN
           ELSE ISqrt(a * Unit, 0, 2 ^ 15)

----
\* Vector math (src/index.js 176-274)

P3(x, y, z) == [x |-> x, y |-> y, z |-> z]
\* the object literal {x: .., y: ..}: it has no z
P2(x, y) == [x |-> x, y |-> y, z |-> Undefined]

crossProduct(a, b) ==
  P3(Sub(Mul(a.y, b.z), Mul(a.z, b.y)),
     Sub(Mul(a.z, b.x), Mul(a.x, b.z)),
     Sub(Mul(a.x, b.y), Mul(a.y, b.x)))
dotProduct3d(a, b) == Add(Add(Mul(a.x, b.x), Mul(a.y, b.y)), Mul(a.z, b.z))
subPoints2d(a, b) == P2(Sub(a.x, b.x), Sub(a.y, b.y))
subPoints3d(a, b) == P3(Sub(a.x, b.x), Sub(a.y, b.y), Sub(a.z, b.z))
addPoints2d(a, b) == P2(Add(a.x, b.x), Add(a.y, b.y))
addPoints3d(a, b) == P3(Add(a.x, b.x), Add(a.y, b.y), Add(a.z, b.z))
mulPoint2d(a, s) == P2(Mul(a.x, s), Mul(a.y, s))
mulPoint3d(a, s) == P3(Mul(a.x, s), Mul(a.y, s), Mul(a.z, s))
vecMag2d(a) == Sqrt(Add(Mul(a.x, a.x), Mul(a.y, a.y)))
vecMag3d(a) == Sqrt(Add(Add(Mul(a.x, a.x), Mul(a.y, a.y)), Mul(a.z, a.z)))
unitVector2d(a) == mulPoint2d(a, Div(Unit, vecMag2d(a)))
unitVector3d(a) == mulPoint3d(a, Div(Unit, vecMag3d(a)))
linearInterpolate(a, b, d) == Add(Mul(Sub(b, a), d), a)
linearInterpolatePoints3d(a, b, d) ==
  P3(linearInterpolate(a.x, b.x, d),
     linearInterpolate(a.y, b.y, d),
     linearInterpolate(a.z, b.z, d))

----
\* AffineMatrix and Transform (src/index.js 276-499)

AffineMatrix(e0, e1, e2, e3, e4, e5, e6, e7, e8, e9, e10, e11) ==
  [e0 |-> e0, e1 |-> e1, e2 |-> e2, e3 |-> e3,
   e4 |-> e4, e5 |-> e5, e6 |-> e6, e7 |-> e7,
   e8 |-> e8, e9 |-> e9, e10 |-> e10, e11 |-> e11]

Add3(a, b, c) == Add(Add(a, b), c)
Add4(a, b, c, d) == Add(Add(Add(a, b), c), d)

\* a faulty product, without the terms of the implied last row
multiplyAffine_linear(a, b) ==
  AffineMatrix(
    Add3(Mul(a.e0, b.e0), Mul(a.e1, b.e4), Mul(a.e2, b.e8)),
    Add3(Mul(a.e0, b.e1), Mul(a.e1, b.e5), Mul(a.e2, b.e9)),
    Add3(Mul(a.e0, b.e2), Mul(a.e1, b.e6), Mul(a.e2, b.e10)),
    Add3(Mul(a.e0, b.e3), Mul(a.e1, b.e7), Mul(a.e2, b.e11)),
    Add3(Mul(a.e4, b.e0), Mul(a.e5, b.e4), Mul(a.e6, b.e8)),
    Add3(Mul(a.e4, b.e1), Mul(a.e5, b.e5), Mul(a.e6, b.e9)),
    Add3(Mul(a.e4, b.e2), Mul(a.e5, b.e6), Mul(a.e6, b.e10)),
    Add3(Mul(a.e4, b.e3), Mul(a.e5, b.e7), Mul(a.e6, b.e11)),
    Add3(Mul(a.e8, b.e0), Mul(a.e9, b.e4), Mul(a.e10, b.e8)),
    Add3(Mul(a.e8, b.e1), Mul(a.e9, b.e5), Mul(a.e10, b.e9)),
    Add3(Mul(a.e8, b.e2), Mul(a.e9, b.e6), Mul(a.e10, b.e10)),
    Add3(Mul(a.e8, b.e3), Mul(a.e9, b.e7), Mul(a.e10, b.e11)))

multiplyAffine(a, b) ==
  AffineMatrix(
    Add3(Mul(a.e0, b.e0), Mul(a.e1, b.e4), Mul(a.e2, b.e8)),
    Add3(Mul(a.e0, b.e1), Mul(a.e1, b.e5), Mul(a.e2, b.e9)),
    Add3(Mul(a.e0, b.e2), Mul(a.e1, b.e6), Mul(a.e2, b.e10)),
    Add4(Mul(a.e0, b.e3), Mul(a.e1, b.e7), Mul(a.e2, b.e11), a.e3),
    Add3(Mul(a.e4, b.e0), Mul(a.e5, b.e4), Mul(a.e6, b.e8)),
    Add3(Mul(a.e4, b.e1), Mul(a.e5, b.e5), Mul(a.e6, b.e9)),
    Add3(Mul(a.e4, b.e2), Mul(a.e5, b.e6), Mul(a.e6, b.e10)),
    Add4(Mul(a.e4, b.e3), Mul(a.e5, b.e7), Mul(a.e6, b.e11), a.e7),
    Add3(Mul(a.e8, b.e0), Mul(a.e9, b.e4), Mul(a.e10, b.e8)),
    Add3(Mul(a.e8, b.e1), Mul(a.e9, b.e5), Mul(a.e10, b.e9)),
    Add3(Mul(a.e8, b.e2), Mul(a.e9, b.e6), Mul(a.e10, b.e10)),
    Add4(Mul(a.e8, b.e3), Mul(a.e9, b.e7), Mul(a.e10, b.e11), a.e11))

makeIdentityAffine ==
  AffineMatrix(Unit, 0, 0, 0,
               0, Unit, 0, 0,
               0, 0, Unit, 0)

\* Angles are counted in quarter turns: the number a stands for the angle
\* a * PI / 2, so that Math.PI is the number 2 and a full turn the number 4.
PI == 2 * Unit
k2PI == PI * 2

\* Math.sin of an angle u of the first half turn, 0 <= u <= PI: the
\* rational approximation 4u(2 - u) / (5 - u(2 - u)) of Bhaskara, which is
\* exact at every quarter turn
HalfTurnSin(u) ==
  LET Ratio(w) == Div(Mul(4 * Unit, w), (5 * Unit) - w)
  IN Ratio(Mul(u, PI - u))

\* Math.sin and Math.cos
Sin(a) == IF ~IsFin(a) THEN NaN
          ELSE IF a % k2PI <= PI THEN HalfTurnSin(a % k2PI)
          ELSE Neg(HalfTurnSin((a % k2PI) - PI))
Cos(a) == IF ~IsFin(a) THEN NaN ELSE Sin(a + (PI \div 2))

\* a faulty rotation matrix, with the same sign on both sines
makeRotateAffineX_symmetric(theta) ==
  LET Matrix(s, c) == AffineMatrix(Unit, 0, 0, 0,
                                   0, c, s, 0,
                                   0, s, c, 0)
  IN Matrix(Sin(theta), Cos(theta))

makeRotateAffineX(theta) ==
  LET Matrix(s, c) == AffineMatrix(Unit, 0, 0, 0,
                                   0, c, Neg(s), 0,
                                   0, s, c, 0)
  IN Matrix(Sin(theta), Cos(theta))

makeRotateAffineY(theta) ==
  LET Matrix(s, c) == AffineMatrix(c, 0, s, 0,
                                   0, Unit, 0, 0,
                                   Neg(s), 0, c, 0)
  IN Matrix(Sin(theta), Cos(theta))

makeRotateAffineZ(theta) ==
  LET Matrix(s, c) == AffineMatrix(c, Neg(s), 0, 0,
                                   s, c, 0, 0,
                                   0, 0, Unit, 0)
  IN Matrix(Sin(theta), Cos(theta))

makeTranslateAffine(dx, dy, dz) ==
  AffineMatrix(Unit, 0, 0, dx,
               0, Unit, 0, dy,
               0, 0, Unit, dz)

makeScaleAffine(sx, sy, sz) ==
  AffineMatrix(sx, 0, 0, 0,
               0, sy, 0, 0,
               0, 0, sz, 0)

transAdjoint(a) ==
  AffineMatrix(
    Sub(Mul(a.e10, a.e5), Mul(a.e6, a.e9)),
    Sub(Mul(a.e6, a.e8), Mul(a.e4, a.e10)),
    Sub(Mul(a.e4, a.e9), Mul(a.e8, a.e5)),
    0,
    Sub(Mul(a.e2, a.e9), Mul(a.e10, a.e1)),
    Sub(Mul(a.e10, a.e0), Mul(a.e2, a.e8)),
    Sub(Mul(a.e8, a.e1), Mul(a.e0, a.e9)),
    0,
    Sub(Mul(a.e6, a.e1), Mul(a.e2, a.e5)),
    Sub(Mul(a.e4, a.e2), Mul(a.e6, a.e0)),
    Sub(Mul(a.e0, a.e5), Mul(a.e4, a.e1)),
    0)

transformPoint(t, p) ==
  P3(Add4(Mul(t.e0, p.x), Mul(t.e1, p.y), Mul(t.e2, p.z), t.e3),
     Add4(Mul(t.e4, p.x), Mul(t.e5, p.y), Mul(t.e6, p.z), t.e7),
     Add4(Mul(t.e8, p.x), Mul(t.e9, p.y), Mul(t.e10, p.z), t.e11))

\* Transform.prototype.*: the new matrix m of a Transform whose matrix is m
Transform_rotateX(m, theta) == multiplyAffine(makeRotateAffineX(theta), m)
Transform_rotateY(m, theta) == multiplyAffine(makeRotateAffineY(theta), m)
Transform_rotateZ(m, theta) == multiplyAffine(makeRotateAffineZ(theta), m)
Transform_scalePre(m, sx, sy, sz) ==
  multiplyAffine(m, makeScaleAffine(sx, sy, sz))
\* a faulty translate, multiplying on the other side
Transform_translate_right(m, dx, dy, dz) ==
  multiplyAffine(m, makeTranslateAffine(dx, dy, dz))
Transform_translate(m, dx, dy, dz) ==
  multiplyAffine(makeTranslateAffine(dx, dy, dz), m)
Transform_scale(m, sx, sy, sz) == multiplyAffine(makeScaleAffine(sx, sy, sz), m)
Transform_rotateXPre(m, theta) == multiplyAffine(m, makeRotateAffineX(theta))
Transform_rotateYPre(m, theta) == multiplyAffine(m, makeRotateAffineY(theta))
Transform_rotateZPre(m, theta) == multiplyAffine(m, makeRotateAffineZ(theta))
Transform_translatePre(m, dx, dy, dz) ==
  multiplyAffine(m, makeTranslateAffine(dx, dy, dz))
\* this.multTransform(t), tm the matrix of t
Transform_multTransform(m, tm) == multiplyAffine(m, tm)
\* setDCM(u, v, w) writes nine coefficients of the matrix m itself
Transform_setDCM(m, u, v, w) ==
  [m EXCEPT !.e0 = u.x, !.e4 = u.y, !.e8 = u.z,
            !.e1 = v.x, !.e5 = v.y, !.e9 = v.z,
            !.e2 = w.x, !.e6 = w.y, !.e10 = w.z]
\* dupAffine(m): a new AffineMatrix with the coefficients of m
dupAffine(m) ==
  AffineMatrix(m.e0, m.e1, m.e2, m.e3, m.e4, m.e5, m.e6, m.e7,
               m.e8, m.e9, m.e10, m.e11)

\* averagePoints(ps) for a sequence of points
RECURSIVE SumPoints(_, _)
SumPoints(ps, i) ==
  IF i > Len(ps) THEN P3(0, 0, 0) ELSE addPoints3d(SumPoints(ps, i + 1), ps[i])
averagePoints(ps) == mulPoint3d(SumPoints(ps, 1), Div(Unit, Num(Len(ps))))

----
\* Objects (src/index.js 539-671)

VARIABLES
  pts,      \* heap of point objects {x, y, z} / {x, y}: id -> value
  faces,    \* heap of QuadFace objects: id -> fields
  rgba,     \* heap of RGBA objects: id -> [r, g, b, a]
  textures, \* heap of TextureInfo objects: id -> fields
  shapes,   \* the caller's Shapes: [vertices: point ids, quads: face ids]
  paths,    \* the caller's Paths: [points: point ids, curves, starting_point]
  r,        \* the Renderer object
  mesh,     \* the Shape the page builds and edits with ShapeUtils, by value
  ex,       \* the Extruder of the page
  ctx,      \* the calls the last operation made on the canvas context
  buffered, \* per face of the shape, what the last operation, a bufferShape,
            \* did with it
  drawn,    \* per face drawn, what the last operation, a drawBuffer, emitted
  last,     \* the last operation called, with its argument
  nops,     \* number of operations called so far
  transforms, \* heap of Transform objects: id -> [m: the id of its matrix,
              \* full: the 4x4 product of the matrices of its operations]
  matrices, \* heap of the AffineMatrix objects Transforms hold: id -> matrix
  pushed,   \* the matrices renderer.transform had at the pushTransform calls
            \* that no popTransform has matched yet
  prior,    \* the matrix renderer.transform had before the last operation
  ticker,   \* the Ticker object of a page that animates
  timers,   \* the interval timers of the window: the handles that are
            \* active, and how many setInterval has created
  ticks     \* what happened to the Ticker so far: its start and stop calls,
            \* and the calls of its callback with their argument

\* the Transform objects of a page that works with the transform stack, and
\* what is recorded about them
xf == <<transforms, matrices, pushed, prior>>

\* the Ticker of the page and what is recorded about it
clock == <<ticker, timers, ticks>>

vars == <<pts, faces, rgba, textures, shapes, paths, r, mesh, ex, ctx,
          buffered, drawn, last, nops, xf, clock>>

Range(f) == {f[i] : i \in DOMAIN f}
MaxId(h) == IF DOMAIN h = {} THEN 0
            ELSE CHOOSE m \in DOMAIN h : \A k \in DOMAIN h : k <= m
\* the ids of n objects newly created in heap h
NewIds(h, n) == LET m == MaxId(h) IN [k \in 1..n |-> m + k]
\* heap h with the objects vals created under the ids ids
Alloc(h, ids, vals) ==
  LET new == Range(ids)
  IN [i \in DOMAIN h \cup new |->
        IF i \in new
        THEN vals[CHOOSE k \in DOMAIN ids : ids[k] = i]
        ELSE h[i]]

RGBA(rr, g, b, a) == [r |-> rr, g |-> g, b |-> b, a |-> a]
RGBA_setRGBA(c, rr, g, b, a) == RGBA(rr, g, b, a)
RGBA_invert(c) == RGBA(Sub(Unit, c.r), Sub(Unit, c.g), Sub(Unit, c.b), c.a)

QuadFace(i0, i1, i2, i3) ==
  [i0 |-> i0, i1 |-> i1, i2 |-> i2, i3 |-> i3,
   centroid |-> null, normal1 |-> null, normal2 |-> null]
isTriangle(qf) == qf.i3 = null

Shape(vertices, quads) == [vertices |-> vertices, quads |-> quads]

Curve(ep, c0, c1) == [ep |-> ep, c0 |-> c0, c1 |-> c1]
isQuadratic(curve) == curve.c1 = null

Path(points, curves, starting_point) ==
  [points |-> points, curves |-> curves, starting_point |-> starting_point]

TextureInfo(image, u0, v0, u1, v1, u2, v2, u3, v3) ==
  [image |-> image, u0 |-> u0, v0 |-> v0, u1 |-> u1, v1 |-> v1,
   u2 |-> u2, v2 |-> v2, u3 |-> u3, v3 |-> v3]

\* arr[i] of a JavaScript array, i counted from 0
At(arr, i) == arr[i + 1]

----
\* ShapeUtils (src/pre3d_path_utils.js 136-942)

\* A Shape is written here by value: vertices is the array of its points
\* and quads the array of its QuadFaces, whose i0..i3 index vertices.

\* the body of rebuildMeta's loop: the face qf with its metadata recomputed
\* from the vertices of its shape
\* a faulty loop body, taking the second normal of a quad from the first
\* triangle
rebuildMetaFace_oneNormal(qf, vertices) ==
  LET vert0 == At(vertices, qf.i0)
      vert1 == At(vertices, qf.i1)
      vert2 == At(vertices, qf.i2)
      Set(n1) ==
        [qf EXCEPT
           !.centroid =
             IF isTriangle(qf) THEN averagePoints(<<vert0, vert1, vert2>>)
             ELSE averagePoints(<<vert0, vert1, vert2,
                                  At(vertices, qf.i3)>>),
           !.normal1 = n1, !.normal2 = n1]
  IN Set(crossProduct(subPoints3d(vert1, vert0), subPoints3d(vert2, vert0)))

rebuildMetaFace(qf, vertices) ==
  LET vert0 == At(vertices, qf.i0)
      vert1 == At(vertices, qf.i1)
      vert2 == At(vertices, qf.i2)
      Meta(vec01, vec02) ==
        LET Set(n1) ==
              IF isTriangle(qf)
              THEN [qf EXCEPT
                      !.centroid = averagePoints(<<vert0, vert1, vert2>>),
                      !.normal1 = n1, !.normal2 = n1]
              ELSE LET vert3 == At(vertices, qf.i3)
                       vec03 == subPoints3d(vert3, vert0)
                   IN [qf EXCEPT
                         !.centroid =
                           averagePoints(<<vert0, vert1, vert2, vert3>>),
                         !.normal1 = n1,
                         !.normal2 = crossProduct(vec02, vec03)]
        IN Set(crossProduct(vec01, vec02))
  IN Meta(subPoints3d(vert1, vert0), subPoints3d(vert2, vert0))

rebuildMeta(shape) ==
  [shape EXCEPT
     !.quads = [i \in DOMAIN shape.quads |->
                  rebuildMetaFace(shape.quads[i], shape.vertices)]]

\* is every face of the shape a quad
allQuads(shape) == \A i \in DOMAIN shape.quads : ~isTriangle(shape.quads[i])

RECURSIVE triangulateLoop_keepQuad(_, _, _)
\* a faulty loop, which leaves the quad a quad when it adds the triangle
triangulateLoop_keepQuad(quads, i, num_quads) ==
  IF i >= num_quads THEN quads
  ELSE LET qf == At(quads, i)
       IN IF isTriangle(qf)
          THEN triangulateLoop_keepQuad(quads, i + 1, num_quads)
          ELSE triangulateLoop_keepQuad(
                 Append(quads, QuadFace(qf.i0, qf.i2, qf.i3, null)),
                 i + 1, num_quads)

RECURSIVE triangulateLoop_otherDiagonal(_, _, _)
\* a faulty loop, which cuts the quad along its other diagonal
triangulateLoop_otherDiagonal(quads, i, num_quads) ==
  IF i >= num_quads THEN quads
  ELSE LET qf == At(quads, i)
       IN IF isTriangle(qf)
          THEN triangulateLoop_otherDiagonal(quads, i + 1, num_quads)
          ELSE triangulateLoop_otherDiagonal(
                 Append([quads EXCEPT ![i + 1].i3 = null],
                        QuadFace(qf.i1, qf.i2, qf.i3, null)),
                 i + 1, num_quads)

RECURSIVE triangulateLoop(_, _, _)
\* the loop of triangulate over the num_quads faces the shape had
triangulateLoop(quads, i, num_quads) ==
  IF i >= num_quads THEN quads
  ELSE LET qf == At(quads, i)
       IN IF isTriangle(qf) THEN triangulateLoop(quads, i + 1, num_quads)
          ELSE triangulateLoop(
                 Append([quads EXCEPT ![i + 1].i3 = null],
                        QuadFace(qf.i0, qf.i2, qf.i3, null)),
                 i + 1, num_quads)

triangulate(shape) ==
  rebuildMeta([shape EXCEPT !.quads = triangulateLoop(@, 0, Len(@))])

makePlane(p1, p2, p3, p4) ==
  rebuildMeta(Shape(<<p1, p2, p3, p4>>, <<QuadFace(0, 1, 2, 3)>>))

makeBox(w, h, d) ==
  rebuildMeta(Shape(
    << P3(w, h, Neg(d)), P3(w, h, d), P3(w, Neg(h), d), P3(w, Neg(h), Neg(d)),
       P3(Neg(w), h, Neg(d)), P3(Neg(w), h, d), P3(Neg(w), Neg(h), d),
       P3(Neg(w), Neg(h), Neg(d)) >>,
    << QuadFace(0, 1, 2, 3), QuadFace(1, 5, 6, 2), QuadFace(5, 4, 7, 6),
       QuadFace(4, 0, 3, 7), QuadFace(0, 4, 5, 1), QuadFace(2, 6, 7, 3) >>))

makeCube(whd) == makeBox(whd, whd, whd)

makeBoxWithHole(w, h, d, hw, hh) ==
  rebuildMeta(Shape(
    << P3(w, h, Neg(d)), P3(w, h, d), P3(w, Neg(h), d), P3(w, Neg(h), Neg(d)),
       P3(Neg(w), h, Neg(d)), P3(Neg(w), h, d), P3(Neg(w), Neg(h), d),
       P3(Neg(w), Neg(h), Neg(d)),
       P3(hw, h, d), P3(w, hh, d), P3(hw, hh, d),
       P3(hw, Neg(h), d), P3(w, Neg(hh), d), P3(hw, Neg(hh), d),
       P3(Neg(hw), h, d), P3(Neg(w), hh, d), P3(Neg(hw), hh, d),
       P3(Neg(hw), Neg(h), d), P3(Neg(w), Neg(hh), d), P3(Neg(hw), Neg(hh), d),
       P3(hw, h, Neg(d)), P3(w, hh, Neg(d)), P3(hw, hh, Neg(d)),
       P3(hw, Neg(h), Neg(d)), P3(w, Neg(hh), Neg(d)), P3(hw, Neg(hh), Neg(d)),
       P3(Neg(hw), h, Neg(d)), P3(Neg(w), hh, Neg(d)), P3(Neg(hw), hh, Neg(d)),
       P3(Neg(hw), Neg(h), Neg(d)), P3(Neg(w), Neg(hh), Neg(d)),
       P3(Neg(hw), Neg(hh), Neg(d)) >>,
    << QuadFace(1, 8, 10, 9), QuadFace(8, 14, 16, 10),
       QuadFace(14, 5, 15, 16), QuadFace(16, 15, 18, 19),
       QuadFace(19, 18, 6, 17), QuadFace(13, 19, 17, 11),
       QuadFace(12, 13, 11, 2), QuadFace(9, 10, 13, 12),
       QuadFace(4, 26, 28, 27), QuadFace(26, 20, 22, 28),
       QuadFace(20, 0, 21, 22), QuadFace(22, 21, 24, 25),
       QuadFace(25, 24, 3, 23), QuadFace(31, 25, 23, 29),
       QuadFace(30, 31, 29, 7), QuadFace(27, 28, 31, 30),
       QuadFace(10, 16, 28, 22), QuadFace(19, 31, 28, 16),
       QuadFace(13, 25, 31, 19), QuadFace(10, 22, 25, 13),
       QuadFace(6, 7, 29, 17), QuadFace(17, 29, 23, 11),
       QuadFace(11, 23, 3, 2),
       QuadFace(1, 9, 21, 0), QuadFace(9, 12, 24, 21),
       QuadFace(12, 2, 3, 24),
       QuadFace(5, 4, 27, 15), QuadFace(15, 27, 30, 18),
       QuadFace(18, 30, 7, 6),
       QuadFace(14, 26, 4, 5), QuadFace(8, 20, 26, 14),
       QuadFace(1, 0, 20, 8) >>))

\* makeSphericalShape(f, tess_x, tess_y): the vertices of the middle grid
\* row by row, then the zenith and the azimuth; the quads of the grid, then
\* a top and a bottom triangle for each i
makeSphericalShape(f, tess_x, tess_y) ==
  LET theta_step == Div(PI, Num(tess_y + 1))
      phi_step == Div(k2PI, Num(tess_x))
      grid == [k \in 1..(tess_y * tess_x) |->
                 f[<<Mul(theta_step, Num(((k - 1) \div tess_x) + 1)),
                     Mul(phi_step, Num((k - 1) % tess_x))>>]]
      middle == [k \in 1..((tess_y - 1) * tess_x) |->
                   LET stride == ((k - 1) \div tess_x) * tess_x
                       j == (k - 1) % tess_x
                       n == (j + 1) % tess_x
                   IN QuadFace(stride + j, stride + tess_x + j,
                               stride + tess_x + n, stride + n)]
      last_row == Len(grid) - tess_x
      top_p_i == Len(grid)
      bot_p_i == top_p_i + 1
      caps == [k \in 1..(2 * tess_x) |->
                 LET i == (k - 1) \div 2
                 IN IF k % 2 = 1
                    THEN QuadFace(top_p_i, i, (i + 1) % tess_x, null)
                    ELSE QuadFace(bot_p_i, last_row + ((i + 2) % tess_x),
                                  last_row + ((i + 1) % tess_x), null)]
  IN rebuildMeta(Shape(grid \o <<f[<<0, 0>>], f[<<PI, 0>>]>>, middle \o caps))

makeOctahedron ==
  rebuildMeta(Shape(
    << P3(Neg(Unit), 0, 0), P3(0, 0, Unit), P3(Unit, 0, 0), P3(0, 0, Neg(Unit)),
       P3(0, Unit, 0), P3(0, Neg(Unit), 0) >>,
    [k \in 1..8 |->
       LET i == (k - 1) \div 2
           i2 == (i + 1) % 4
       IN IF k % 2 = 1 THEN QuadFace(4, i, i2, null)
          ELSE QuadFace(i, 5, i2, null)]))

makeSphere(rad, tess_x, tess_y) ==
  makeSphericalShape(
    [a \in Int \X Int |->
       LET theta == a[1]
           phi == a[2]
       IN P3(Mul(Mul(rad, Sin(theta)), Sin(phi)), Mul(rad, Cos(theta)),
             Mul(Mul(rad, Sin(theta)), Cos(phi)))],
    tess_x, tess_y)

RECURSIVE connectionsOf(_, _, _)
\* connections[v] of averageSmooth: the indices of the faces that use vertex
\* v, once for each slot that holds v, from face i on
connectionsOf(quads, v, i) ==
  IF i >= Len(quads) THEN << >>
  ELSE LET qf == At(quads, i)
       IN (IF qf.i0 = v THEN <<i>> ELSE << >>)
          \o (IF qf.i1 = v THEN <<i>> ELSE << >>)
          \o (IF qf.i2 = v THEN <<i>> ELSE << >>)
          \o (IF ~isTriangle(qf) /\ qf.i3 = v THEN <<i>> ELSE << >>)
          \o connectionsOf(quads, v, i + 1)

RECURSIVE sumCentroids(_, _, _, _)
\* the loop of averageSmooth that sums the centroids of the faces cs
sumCentroids(shape, cs, j, avg) ==
  IF j >= Len(cs) THEN avg
  ELSE LET quad == At(shape.quads, At(cs, j))
           p1 == At(shape.vertices, quad.i0)
           p2 == At(shape.vertices, quad.i1)
           p3 == At(shape.vertices, quad.i2)
           p4 == At(shape.vertices, quad.i3)
       IN sumCentroids(shape, cs, j + 1,
            P3(Add(avg.x, Div(Add(Add(Add(p1.x, p2.x), p3.x), p4.x), Num(4))),
               Add(avg.y, Div(Add(Add(Add(p1.y, p2.y), p3.y), p4.y), Num(4))),
               Add(avg.z, Div(Add(Add(Add(p1.z, p2.z), p3.z), p4.z), Num(4)))))

\* averageSmooth(shape, m) of a shape whose faces are all quads
averageSmooth(shape, m) ==
  LET vertices == shape.vertices
      Smoothed(p, cs) ==
        LET f == Div(Unit, Num(Len(cs)))
            avg == mulPoint3d(sumCentroids(shape, cs, 0, P3(0, 0, 0)), f)
        IN linearInterpolatePoints3d(p, avg, m)
      new_ps == [i \in DOMAIN vertices |->
                   Smoothed(vertices[i],
                            connectionsOf(shape.quads, i - 1, 0))]
  IN rebuildMeta([shape EXCEPT !.vertices = new_ps])

RECURSIVE Digits(_)
\* String(n) for an index n: its decimal digits
Digits(n) == IF n < 10 THEN <<n>> ELSE Append(Digits(n \div 10), n % 10)

RECURSIVE StringLess(_, _)
\* s < t for two strings of digits
StringLess(s, t) ==
  IF t = << >> THEN FALSE
  ELSE IF s = << >> THEN TRUE
  ELSE IF Head(s) # Head(t) THEN Head(s) < Head(t)
  ELSE StringLess(Tail(s), Tail(t))

RECURSIVE sortInsertDefault(_, _, _)
sortInsertDefault(sorted, e, i) ==
  IF i > Len(sorted) THEN Append(sorted, e)
  ELSE IF StringLess(Digits(e), Digits(sorted[i]))
       THEN SubSeq(sorted, 1, i - 1) \o <<e>> \o SubSeq(sorted, i, Len(sorted))
       ELSE sortInsertDefault(sorted, e, i + 1)

\* a faulty sort, which leaves the array as it is
sortDefault_unsorted(arr, n) == arr

RECURSIVE sortDefault(_, _)
\* Array.prototype.sort() of an array of indices: with no comparator the
\* elements are ordered as strings
sortDefault(arr, n) ==
  IF n = 0 THEN << >>
  ELSE sortInsertDefault(sortDefault(arr, n - 1), arr[n], 1)

RECURSIVE sharePoints(_, _)
\* the inner loop of linearSubdivide and linearSubdivideTri, from j on, on
\* st = [vertices, share_points, ni]: each ni[j], the sorted indices to
\* average, becomes the index of their centroid, a new vertex unless
\* share_points has it
sharePoints(st, j) ==
  IF j >= Len(st.ni) THEN st
  ELSE LET ps == At(st.ni, j)
       IN IF ps \in DOMAIN st.share_points
          THEN sharePoints([st EXCEPT !.ni[j + 1] = st.share_points[ps]], j + 1)
          ELSE sharePoints(
                 [vertices |-> Append(st.vertices,
                                 averagePoints([k \in DOMAIN ps |->
                                                  At(st.vertices, ps[k])])),
                  share_points |-> st.share_points
                                     @@ (ps :> Len(st.vertices)),
                  ni |-> [st.ni EXCEPT ![j + 1] = Len(st.vertices)]],
                 j + 1)

\* one pass of linearSubdivide's loop, for face i, on
\* st = [vertices, quads, share_points]
linearSubdivideFace(st, i) ==
  LET quad == At(st.quads, i)
      i0 == quad.i0
      i1 == quad.i1
      i2 == quad.i2
      i3 == quad.i3
      Split(sp) ==
        LET ni == sp.ni
            q0 == QuadFace(i0, At(ni, 0), At(ni, 4), At(ni, 3))
            q1 == QuadFace(At(ni, 0), i1, At(ni, 1), At(ni, 4))
            q2 == QuadFace(At(ni, 4), At(ni, 1), i2, At(ni, 2))
            q3 == QuadFace(At(ni, 3), At(ni, 4), At(ni, 2), i3)
        IN [vertices |-> sp.vertices, share_points |-> sp.share_points,
            quads |-> [st.quads EXCEPT ![i + 1] = q0] \o <<q1, q2, q3>>]
  IN Split(sharePoints(
             [vertices |-> st.vertices, share_points |-> st.share_points,
              ni |-> << sortDefault(<<i0, i1>>, 2), sortDefault(<<i1, i2>>, 2),
                        sortDefault(<<i2, i3>>, 2), sortDefault(<<i3, i0>>, 2),
                        sortDefault(<<i0, i1, i2, i3>>, 4) >>], 0))

RECURSIVE linearSubdivideLoop(_, _, _)
\* the loop of linearSubdivide over the num_quads faces the shape had, which
\* are the first num_quads faces of st.quads in every pass
linearSubdivideLoop(st, i, num_quads) ==
  IF i >= num_quads \/ i >= Len(st.quads) THEN st
  ELSE linearSubdivideLoop(linearSubdivideFace(st, i), i + 1, num_quads)

\* linearSubdivide(shape) of a shape whose faces are all quads
linearSubdivide(shape) ==
  LET Rebuilt(st) == rebuildMeta(Shape(st.vertices, st.quads))
  IN Rebuilt(linearSubdivideLoop(
               [vertices |-> shape.vertices, quads |-> shape.quads,
                share_points |-> << >>], 0, Len(shape.quads)))

\* one pass of linearSubdivideTri's loop, for face i
linearSubdivideTriFace(st, i) ==
  LET tri == At(st.quads, i)
      i0 == tri.i0
      i1 == tri.i1
      i2 == tri.i2
      Split(sp) ==
        LET ni == sp.ni
            q0 == QuadFace(i0, At(ni, 0), At(ni, 2), null)
            q1 == QuadFace(At(ni, 0), i1, At(ni, 1), null)
            q2 == QuadFace(At(ni, 2), At(ni, 1), i2, null)
            q3 == QuadFace(At(ni, 0), At(ni, 1), At(ni, 2), null)
        IN [vertices |-> sp.vertices, share_points |-> sp.share_points,
            quads |-> [st.quads EXCEPT ![i + 1] = q0] \o <<q1, q2, q3>>]
  IN Split(sharePoints(
             [vertices |-> st.vertices, share_points |-> st.share_points,
              ni |-> << sortDefault(<<i0, i1>>, 2), sortDefault(<<i1, i2>>, 2),
                        sortDefault(<<i2, i0>>, 2) >>], 0))

RECURSIVE linearSubdivideTriLoop(_, _, _)
\* the loop of linearSubdivideTri over the num_tris faces the shape had
linearSubdivideTriLoop(st, i, num_tris) ==
  IF i >= num_tris \/ i >= Len(st.quads) THEN st
  ELSE linearSubdivideTriLoop(linearSubdivideTriFace(st, i), i + 1, num_tris)

linearSubdivideTri(shape) ==
  LET Rebuilt(st) == rebuildMeta(Shape(st.vertices, st.quads))
  IN Rebuilt(linearSubdivideTriLoop(
               [vertices |-> shape.vertices, quads |-> shape.quads,
                share_points |-> << >>], 0, Len(shape.quads)))

\* a faulty pass of explodeFaces' loop, which copies no vertex for i3
explodeFace_noFourth(st, verts, i) ==
  LET q == At(st.quads, i)
      pos == Len(st.new_verts)
      three == <<At(verts, q.i0), At(verts, q.i1), At(verts, q.i2)>>
  IN IF isTriangle(q)
     THEN [new_verts |-> st.new_verts \o three,
           quads |-> [st.quads EXCEPT ![i + 1].i0 = pos, ![i + 1].i1 = pos + 1,
                                      ![i + 1].i2 = pos + 2]]
     ELSE [new_verts |-> st.new_verts \o three,
           quads |-> [st.quads EXCEPT ![i + 1].i0 = pos, ![i + 1].i1 = pos + 1,
                                      ![i + 1].i2 = pos + 2,
                                      ![i + 1].i3 = pos + 3]]
\* a faulty pass of explodeFaces' loop, which gives i1 the index of i0
explodeFace_sameIndex(st, verts, i) ==
  LET q == At(st.quads, i)
      pos == Len(st.new_verts)
      three == <<At(verts, q.i0), At(verts, q.i1), At(verts, q.i2)>>
  IN IF isTriangle(q)
     THEN [new_verts |-> st.new_verts \o three,
           quads |-> [st.quads EXCEPT ![i + 1].i0 = pos, ![i + 1].i1 = pos,
                                      ![i + 1].i2 = pos + 2]]
     ELSE [new_verts |-> st.new_verts \o three \o <<At(verts, q.i3)>>,
           quads |-> [st.quads EXCEPT ![i + 1].i0 = pos, ![i + 1].i1 = pos,
                                      ![i + 1].i2 = pos + 2,
                                      ![i + 1].i3 = pos + 3]]
\* one pass of explodeFaces' loop, for face i, on st = [new_verts, quads]
explodeFace(st, verts, i) ==
  LET q == At(st.quads, i)
      pos == Len(st.new_verts)
      three == <<At(verts, q.i0), At(verts, q.i1), At(verts, q.i2)>>
  IN IF isTriangle(q)
     THEN [new_verts |-> st.new_verts \o three,
           quads |-> [st.quads EXCEPT ![i + 1].i0 = pos, ![i + 1].i1 = pos + 1,
                                      ![i + 1].i2 = pos + 2]]
     ELSE [new_verts |-> st.new_verts \o three \o <<At(verts, q.i3)>>,
           quads |-> [st.quads EXCEPT ![i + 1].i0 = pos, ![i + 1].i1 = pos + 1,
                                      ![i + 1].i2 = pos + 2,
                                      ![i + 1].i3 = pos + 3]]

RECURSIVE explodeLoop(_, _, _, _)
explodeLoop(st, verts, i, num_quads) ==
  IF i >= num_quads \/ i >= Len(st.quads) THEN st
  ELSE explodeLoop(explodeFace(st, verts, i), verts, i + 1, num_quads)

explodeFaces(shape) ==
  LET Exploded(st) == Shape(st.new_verts, st.quads)
  IN Exploded(explodeLoop([new_verts |-> << >>, quads |-> shape.quads],
                          shape.vertices, 0, Len(shape.quads)))

\* The selectors of an Extruder: the one selectAll installs, and the one of
\* the extrusion demo, which selects face 0.
selectAll == 1
selectFirst == 2
CallSelector(selector, shape, quad_index) ==
  IF selector = selectAll THEN TRUE ELSE quad_index = 0

\* new Extruder()
Extruder ==
  [distance_ |-> Unit, count_ |-> 1, selector_ |-> selectAll,
   scale |-> P3(Unit, Unit, Unit), rotate |-> P3(0, 0, 0)]

\* one pass of extrude's loop over z, for the face face_index, on
\* st = [vertices, quads]; L holds what extrude computed for the face
\* before the loop
extrudeStep(e, st, face_index, L, z) ==
  LET qf == At(st.quads, face_index)
      index_before == Len(st.vertices)
      sides == << QuadFace(qf.i1, index_before + 1, index_before, qf.i0),
                  QuadFace(qf.i2, index_before + 2, index_before + 1, qf.i1) >>
               \o (IF L.is_triangle = TRUE
                   THEN <<QuadFace(qf.i0, index_before, index_before + 2,
                                   qf.i2)>>
                   ELSE << QuadFace(qf.i3, index_before + 3, index_before + 2,
                                    qf.i2),
                           QuadFace(qf.i0, index_before, index_before + 3,
                                    qf.i3) >>)
      moved == [qf EXCEPT !.i0 = index_before, !.i1 = index_before + 1,
                          !.i2 = index_before + 2,
                          !.i3 = IF L.is_triangle # TRUE
                                 THEN index_before + 3 ELSE @]
      Pushed(new_cent, t) ==
        << addPoints3d(new_cent, transformPoint(t, L.inner_normal0)),
           addPoints3d(new_cent, transformPoint(t, L.inner_normal1)),
           addPoints3d(new_cent, transformPoint(t, L.inner_normal2)) >>
        \o (IF L.is_triangle # TRUE
            THEN <<addPoints3d(new_cent, transformPoint(t, L.inner_normal3))>>
            ELSE << >>)
      \* the transform t as it is after the three rotations, and after scalePre
      Rotated(m, t0) ==
        Pushed(addPoints3d(L.original_cent,
                 mulPoint3d(transformPoint(t0, L.surface_normal),
                            Mul(m, e.distance_))),
               Transform_scalePre(t0, linearInterpolate(Unit, e.scale.x, m),
                                  linearInterpolate(Unit, e.scale.y, m),
                                  linearInterpolate(Unit, e.scale.z, m)))
      Step_z(m) ==
        Rotated(m, Transform_rotateZ(
                     Transform_rotateY(
                       Transform_rotateX(makeIdentityAffine,
                                         Mul(e.rotate.x, m)),
                       Mul(e.rotate.y, m)),
                     Mul(e.rotate.z, m)))
  IN [vertices |-> st.vertices \o Step_z(Div(Num(z + 1), Num(e.count_))),
      quads |-> [st.quads EXCEPT ![face_index + 1] = moved] \o sides]

RECURSIVE extrudeSteps_newest(_, _, _, _, _)
\* a faulty loop, which goes on with the face it pushed last
extrudeSteps_newest(e, st, face_index, L, z) ==
  IF z >= e.count_ \/ face_index >= Len(st.quads) THEN st
  ELSE extrudeSteps_newest(e, extrudeStep(e, st, face_index, L, z),
                           Len(st.quads) + 2, L, z + 1)

RECURSIVE extrudeSteps(_, _, _, _, _)
extrudeSteps(e, st, face_index, L, z) ==
  IF z >= e.count_ \/ face_index >= Len(st.quads) THEN st
  ELSE extrudeSteps(e, extrudeStep(e, st, face_index, L, z), face_index, L,
                    z + 1)

\* one pass of extrude's loop over the selected faces, for face_index
extrudeFace(e, st, face_index) ==
  LET qf == At(st.quads, face_index)
      original_cent == qf.centroid
      is_triangle == isTriangle(qf)
      L == [original_cent |-> original_cent,
            surface_normal |-> unitVector3d(addPoints3d(qf.normal1, qf.normal2)),
            is_triangle |-> is_triangle,
            inner_normal0 |-> subPoints3d(At(st.vertices, qf.i0), original_cent),
            inner_normal1 |-> subPoints3d(At(st.vertices, qf.i1), original_cent),
            inner_normal2 |-> subPoints3d(At(st.vertices, qf.i2), original_cent),
            inner_normal3 |-> IF is_triangle # TRUE
                             THEN subPoints3d(At(st.vertices, qf.i3),
                                              original_cent)
                             ELSE Undefined]
  IN extrudeSteps(e, st, face_index, L, 0)

RECURSIVE extrudeFaces(_, _, _, _)
extrudeFaces(e, st, selected, i) ==
  IF i >= Len(selected) \/ At(selected, i) >= Len(st.quads) THEN st
  ELSE extrudeFaces(e, extrudeFace(e, st, At(selected, i)), selected, i + 1)

\* Extruder.prototype.extrude(shape) of the Extruder e: the shape afterwards
extrude(e, shape) ==
  LET selected == SelectSeq([k \in DOMAIN shape.quads |-> k - 1],
                            LAMBDA i : CallSelector(e.selector_, shape, i))
      Rebuilt(st) == rebuildMeta(Shape(st.vertices, st.quads))
  IN Rebuilt(extrudeFaces(e, [vertices |-> shape.vertices,
                              quads |-> shape.quads], selected, 0))

----
\* The caller's scene: what a page sets up before it draws

\* Shape 1: a near triangle with one vertex in the camera plane z = 0,
\* then a far quad.  Shape 2: a quad seen from behind, then a folded quad
\* whose first normal faces the camera and whose second does not; the two
\* share three vertices.  The page ran rebuildMeta on both.
SceneMeshes ==
  << rebuildMeta(Shape(
       << P3(Num(0), Num(2), Num(0)), P3(Num(0 - 1), Num(0 - 1), Num(0 - 3)),
          P3(Num(1), Num(0 - 1), Num(0 - 3)),
          P3(Num(0 - 1), Num(0 - 1), Num(0 - 4)),
          P3(Num(1), Num(0 - 1), Num(0 - 4)),
          P3(Num(1), Num(1), Num(0 - 4)), P3(Num(0 - 1), Num(1), Num(0 - 4)) >>,
       << QuadFace(0, 1, 2, null), QuadFace(3, 4, 5, 6) >>)),
     rebuildMeta(Shape(
       << P3(Num(0 - 1), Num(0 - 1), Num(0 - 2)),
          P3(Num(1), Num(0 - 1), Num(0 - 2)),
          P3(Num(1), Num(1), Num(0 - 2)), P3(Num(0 - 1), Num(1), Num(0 - 2)),
          P3(Num(2), Num(0 - 1), Num(0 - 2)) >>,
       << QuadFace(3, 2, 1, 0), QuadFace(0, 1, 2, 4) >>)) >>

\* The objects of the scene take the first ids of the heaps: the points of
\* shape 1, of shape 2, of path 1 and of path 2; the faces of shape 1 and
\* of shape 2.
ScenePoints ==
  LET Points(meshes) == meshes[1].vertices \o meshes[2].vertices
  IN Points(SceneMeshes)

SceneFaces ==
  LET Faces(meshes) == meshes[1].quads \o meshes[2].quads
  IN Faces(SceneMeshes)

SceneShapes ==
  << Shape(<<1, 2, 3, 4, 5, 6, 7>>, <<1, 2>>),
     Shape(<<8, 9, 10, 11, 12>>, <<3, 4>>) >>

\* kKappa of makeCircle
kKappa == (2 * Unit) \div 3

\* a faulty circle whose last point is its first one
CirclePoints_open ==
  << P3(0, kKappa, 0), P3(Unit, kKappa, 0), P3(Unit, 0, 0),
     P3(Unit, 0 - kKappa, 0), P3(0, 0 - kKappa, 0), P3(0, kKappa, 0) >>

\* the points of makeCircle()
CirclePoints ==
  << P3(0, kKappa, 0), P3(Unit, kKappa, 0), P3(Unit, 0, 0),
     P3(Unit, 0 - kKappa, 0), P3(0, 0 - kKappa, 0), P3(0, 0, 0) >>

\* the points of a path that starts at its last point, as the attractor demo
\* builds it
ArcPoints ==
  << P3(Num(1), Num(0), Num(0 - 2)), P3(Num(0), Num(1), Num(0 - 2)),
     P3(Num(0 - 1), Num(0), Num(0 - 2)) >>

ScenePaths ==
  << Path(<<13, 14, 15, 16, 17, 18>>, <<Curve(2, 0, 1), Curve(5, 3, 4)>>, null),
     Path(<<19, 20, 21>>, <<Curve(0, 1, null), Curve(2, 1, 0)>>, 2) >>

ScenePts ==
  LET Heap(all) == [i \in 1..Len(all) |-> all[i]]
  IN Heap(ScenePoints \o CirclePoints \o ArcPoints)

SceneFaceHeap ==
  LET Heap(all) == [i \in 1..Len(all) |-> all[i]]
  IN Heap(SceneFaces)

\* colour 1 is the fill colour the Renderer creates, colour 2 is the caller's
SceneRgba == << RGBA(Unit, 0, 0, Unit), RGBA(0, Unit, 0, Unit) >>

\* texinfo1 and texinfo2 of the textured cube demo, for an image of 2 x 2
SceneTextures ==
  << TextureInfo(1, 0, 0, 0, Num(2), Num(2), Num(2), null, null),
     TextureInfo(1, 0, 0, Num(2), Num(2), Num(2), 0, null, null) >>

\* the sizes of the canvas element
CanvasSizes == { <<Num(8), Num(6)>> }

Camera == [transform |-> makeIdentityAffine, focal_length |-> Unit]

\* new Renderer(canvas_element), canvas = <<width, height>>
Renderer(canvas) ==
  [perform_z_sorting |-> TRUE,
   draw_overdraw |-> TRUE,
   draw_backfaces |-> FALSE,
   texture |-> null,
   fill_rgba |-> 1,
   stroke_rgba |-> null,
   normal1_rgba |-> null,
   normal2_rgba |-> null,
   camera |-> Camera,
   transform |-> makeIdentityAffine,
   transform_stack_ |-> << >>,
   quad_callback |-> null,
   width_ |-> canvas[1],
   height_ |-> canvas[2],
   scale_ |-> Div(canvas[2], Num(2)),
   xoff_ |-> Div(canvas[1], Num(2)),
   buffered_quads_ |-> << >>]

\* DemoUtils.Ticker (src/demos/demo_utils.js 42-87)

\* new Ticker(fps, callback)
Ticker(fps, callback) ==
  [interval_ms_ |-> Div(Num(1000), Num(fps)),
   callback_ |-> callback,
   t_ |-> 0,
   step_ |-> 1,
   interval_handle_ |-> null]

Ticker_isRunning(tk) == tk.interval_handle_ # null

\* setInterval(func, ms) of the window tm: the window afterwards and the
\* handle returned, a number no earlier call returned
setInterval(tm) ==
  [timers |-> [active |-> tm.active \cup {tm.created + 1},
               created |-> tm.created + 1],
   ret |-> tm.created + 1]

\* clearInterval(handle)
clearInterval(tm, handle) == [tm EXCEPT !.active = @ \ {handle}]

\* a faulty start that does not look whether the Ticker is running
Ticker_start_unguarded(tk, tm) ==
  LET set == setInterval(tm)
  IN [ticker |-> [tk EXCEPT !.interval_handle_ = set.ret],
      timers |-> set.timers]
\* this.start() on the Ticker tk in the window tm
Ticker_start(tk, tm) ==
  IF Ticker_isRunning(tk) THEN [ticker |-> tk, timers |-> tm]
  ELSE LET set == setInterval(tm)
       IN [ticker |-> [tk EXCEPT !.interval_handle_ = set.ret],
           timers |-> set.timers]

\* this.stop()
Ticker_stop(tk, tm) ==
  IF ~Ticker_isRunning(tk) THEN [ticker |-> tk, timers |-> tm]
  ELSE [ticker |-> [tk EXCEPT !.interval_handle_ = null],
        timers |-> clearInterval(tm, tk.interval_handle_)]

\* the function start hands to setInterval, run on the Ticker self: the
\* Ticker afterwards and the argument the callback was called with
Ticker_interval(self) ==
  [ticker |-> [self EXCEPT !.t_ = self.t_ + self.step_],
   called |-> self.t_]

Ticker_set_step(tk, step) == [tk EXCEPT !.step_ = step]
Ticker_reverse_step_direction(tk) == [tk EXCEPT !.step_ = 0 - tk.step_]

\* the page's objects before its first operation, all but the Renderer and
\* the Transform objects
InitScene ==
  /\ ticker = Ticker(30, "spin_and_draw")
  /\ timers = [active |-> {}, created |-> 0]
  /\ ticks = << >>
  /\ pts = ScenePts
  /\ faces = SceneFaceHeap
  /\ rgba = [i \in 1..Len(SceneRgba) |-> SceneRgba[i]]
  /\ textures = [i \in 1..Len(SceneTextures) |-> SceneTextures[i]]
  /\ shapes = SceneShapes
  /\ paths = ScenePaths
  /\ mesh = Shape(<< >>, << >>)
  /\ ex = Extruder
  /\ ctx = << >>
  /\ buffered = << >>
  /\ drawn = << >>
  /\ last = <<"new", null>>
  /\ nops = 0

\* A page that draws or edits a Shape: r.transform holds the matrix of
\* renderer.transform, which nothing else refers to.
Init ==
  /\ InitScene
  /\ \E canvas \in CanvasSizes : r = Renderer(canvas)
  /\ transforms = << >>
  /\ matrices = << >>
  /\ pushed = << >>
  /\ prior = null

----
\* Renderer (src/index.js 693-1147)

\* The quad callbacks a page installs.  selectTexture is the one of the
\* textured cube demo: it picks the texture by face index and skips nothing.
\* skipFirst skips face 0 and changes nothing.  paintFace assigns the fill
\* colour, the stroke colour and the texture of every face and returns 1 for
\* face 0 and nothing for the others.  reconfigure turns draw_backfaces on,
\* takes the callback out, moves the camera and the object, turns
\* draw_overdraw off and sets a colour for the first normal, at every face.
selectTexture == 1
skipFirst == 2
paintFace == skipFirst + 1
reconfigure == paintFace + 1
QuadCallbacks == {selectTexture, skipFirst, paintFace, reconfigure}

\* quad_callback(qf, j, shape) run on the renderer rr: the renderer
\* afterwards and the value returned, "true", "false", "1" or "undefined"
CallQuadCallback(cb, rr, j) ==
  IF cb = selectTexture
  THEN [r |-> [rr EXCEPT !.texture = IF j < 1 THEN 1 ELSE 2], ret |-> "false"]
  ELSE IF cb = skipFirst
  THEN [r |-> rr, ret |-> IF j = 0 THEN "true" ELSE "false"]
  ELSE IF cb = paintFace
  THEN [r |-> [rr EXCEPT !.fill_rgba = IF j = 0 THEN null ELSE 1,
                         !.stroke_rgba = 2,
                         !.texture = IF j = 0 THEN 1 ELSE 2],
        ret |-> IF j = 0 THEN "1" ELSE "undefined"]
  ELSE [r |-> [rr EXCEPT !.draw_backfaces = TRUE,
                         !.quad_callback = null,
                         !.camera.transform =
                            Transform_translate(@, 0, 0, Num(0 - 1)),
                         !.transform = Transform_translate(@, Num(1), 0, 0),
                         !.draw_overdraw = FALSE,
                         !.normal1_rgba = 2],
        ret |-> "undefined"]

g_z_axis_vector == P3(0, 0, Unit)

\* a faulty transformPoints, writing the transformed points over its input
transformPoints_inplace(t, ps, P) ==
  [out |-> ps,
   P |-> [i \in DOMAIN P |->
            IF i \in Range(ps) THEN transformPoint(t, P[i]) ELSE P[i]]]
\* transformPoints(t, ps) on the array ps of point ids: the array of the
\* newly created points, and the point heap with them
transformPoints(t, ps, P) ==
  LET out == NewIds(P, Len(ps))
  IN [out |-> out,
      P |-> Alloc(P, out, [i \in DOMAIN ps |-> transformPoint(t, P[ps[i]])])]

\* The locals bufferShape sets before its loop; world_vertices is the array
\* transformPoints returned.
BufferLocals(rr, shape, world_vertices) ==
  LET Locals(t) ==
        [draw_backfaces |-> rr.draw_backfaces,
         quad_callback |-> rr.quad_callback,
         t |-> t,
         tn |-> transAdjoint(t),
         world_vertices |-> world_vertices,
         shape |-> shape,
         quads |-> shape.quads,
         jl |-> Len(shape.quads)]
  IN Locals(multiplyAffine(rr.camera.transform, rr.transform))

\* does bufferShape cull a face whose transformed centroid is behind z = -1
\* a faulty near cull, keeping a centroid at exactly -1
NearCulled_strict(centroid) == Gt(centroid.z, Neg(Unit))
NearCulled(centroid) == Ge(centroid.z, Neg(Unit))

\* a faulty backface cull, culling when either normal points away
BackfaceCulled_either(draw_backfaces, centroid, n1, n2) ==
  /\ draw_backfaces # TRUE
  /\ \/ Gt(dotProduct3d(centroid, n1), 0)
     \/ Gt(dotProduct3d(centroid, n2), 0)
\* does bufferShape cull a face as a back face
BackfaceCulled(draw_backfaces, centroid, n1, n2) ==
  /\ draw_backfaces # TRUE
  /\ Gt(dotProduct3d(centroid, n1), 0)
  /\ Gt(dotProduct3d(centroid, n2), 0)

\* the world QuadFace bufferShape builds for face qf: its slots hold the
\* transformed points themselves
WorldFace(qf, L, centroid, n1, n2) ==
  [i0 |-> At(L.world_vertices, qf.i0),
   i1 |-> At(L.world_vertices, qf.i1),
   i2 |-> At(L.world_vertices, qf.i2),
   i3 |-> IF isTriangle(qf) THEN null ELSE At(L.world_vertices, qf.i3),
   centroid |-> centroid, normal1 |-> n1, normal2 |-> n2]

\* the entry bufferShape pushes for the world face world_qf
BufferEntry(rr, world_qf, intensity) ==
  [qf |-> world_qf,
   intensity |-> intensity,
   draw_overdraw |-> rr.draw_overdraw,
   texture |-> rr.texture,
   fill_rgba |-> rr.fill_rgba,
   stroke_rgba |-> rr.stroke_rgba,
   normal1_rgba |-> rr.normal1_rgba,
   normal2_rgba |-> rr.normal2_rgba]

\* a faulty reading of draw_backfaces, from the renderer at every face
DrawBackfaces_current(L, rr) == rr.draw_backfaces
\* the draw_backfaces the loop of bufferShape tests: the local read before
\* the loop
DrawBackfaces(L, rr) == L.draw_backfaces

\* a faulty test that skips the face on every value that counts as true
Skipped_truthy(ret) == ret \in {"true", "1"}
\* does the value the callback returned make bufferShape skip the face
Skipped(ret) == ret = "true"

\* One pass of bufferShape's loop, for face j, on st = [r, F, buffered]:
\* the renderer, the face heap, and the record of what happened to each
\* face: the calls of the callback with their arguments and the value
\* returned, and the outcome, "skipped" by the callback, culled as "near" or
\* as "backface", or "added", with the transformed centroid and the two dot
\* products.
BufferFace(st, L, j) ==
  LET qf == st.F[At(L.quads, j)]
      cb == IF L.quad_callback # null
            THEN CallQuadCallback(L.quad_callback, st.r, j)
            ELSE [r |-> st.r, ret |-> "false"]
      calls == IF L.quad_callback # null
               THEN << [qf |-> At(L.quads, j), j |-> j, shape |-> L.shape,
                        ret |-> cb.ret] >>
               ELSE << >>
      rr == cb.r
      world_qf == MaxId(st.F) + 1
      Intensity(dot) == IF Lt(dot, 0) THEN 0 ELSE dot
      Face(centroid, n1, n2) ==
        IF Skipped(cb.ret)
        THEN [r |-> rr, F |-> st.F,
              buffered |-> Append(st.buffered,
                                  [j |-> j, calls |-> calls,
                                   outcome |-> "skipped"])]
        ELSE IF NearCulled(centroid)
        THEN [r |-> rr, F |-> st.F,
              buffered |-> Append(st.buffered,
                                  [j |-> j, calls |-> calls,
                                   outcome |-> "near",
                                   centroid |-> centroid])]
        ELSE IF BackfaceCulled(DrawBackfaces(L, rr), centroid, n1, n2)
        THEN [r |-> rr, F |-> st.F,
              buffered |-> Append(st.buffered,
                                  [j |-> j, calls |-> calls,
                                   outcome |-> "backface",
                                   centroid |-> centroid,
                                   dot1 |-> dotProduct3d(centroid, n1),
                                   dot2 |-> dotProduct3d(centroid, n2)])]
        ELSE [r |-> [rr EXCEPT !.buffered_quads_ =
                       Append(@, BufferEntry(rr, world_qf,
                                   Intensity(dotProduct3d(g_z_axis_vector,
                                                          n1))))],
              F |-> Alloc(st.F, <<world_qf>>,
                          <<WorldFace(qf, L, centroid, n1, n2)>>),
              buffered |-> Append(st.buffered,
                                  [j |-> j, calls |-> calls,
                                   outcome |-> "added",
                                   centroid |-> centroid,
                                   dot1 |-> dotProduct3d(centroid, n1),
                                   dot2 |-> dotProduct3d(centroid, n2),
                                   qf |-> world_qf])]
  IN Face(transformPoint(L.t, qf.centroid),
          unitVector3d(transformPoint(L.tn, qf.normal1)),
          transformPoint(L.tn, qf.normal2))

RECURSIVE BufferLoop(_, _, _)
BufferLoop(st, L, j) ==
  IF j >= L.jl THEN st ELSE BufferLoop(BufferFace(st, L, j), L, j + 1)

\* the point ids and face ids a renderer and the caller's objects hold
LivePoints(rr, F, S, PA) ==
  UNION {Range(S[i].vertices) : i \in DOMAIN S}
  \cup UNION {Range(PA[i].points) : i \in DOMAIN PA}
  \cup UNION {{F[e.qf].i0, F[e.qf].i1, F[e.qf].i2, F[e.qf].i3} \ {null} :
              e \in Range(rr.buffered_quads_)}
LiveFaces(rr, S) ==
  UNION {Range(S[i].quads) : i \in DOMAIN S}
  \cup {e.qf : e \in Range(rr.buffered_quads_)}
\* heap h without the objects nothing refers to any more
Collect(h, live) == [i \in DOMAIN h \cap live |-> h[i]]

\* bufferShape(shape) as a whole: the renderer and the heaps afterwards
BufferShapeResult(rr, shape, P, F) ==
  LET Buffered(tp) ==
        LET Result(st) ==
              [r |-> st.r, F |-> st.F, P |-> tp.P, buffered |-> st.buffered]
        IN Result(BufferLoop([r |-> rr, F |-> F, buffered |-> << >>],
                             BufferLocals(rr, shape, tp.out), 0))
  IN Buffered(transformPoints(
                multiplyAffine(rr.camera.transform, rr.transform),
                shape.vertices, P))

\* zSorter(x, y) for two buffer entries
\* a faulty zSorter, comparing the other way round
zSorter_descending(x, y, F) == Sub(F[y.qf].centroid.z, F[x.qf].centroid.z)
zSorter(x, y, F) == Sub(F[x.qf].centroid.z, F[y.qf].centroid.z)

\* Array.prototype.sort(zSorter): a stable insertion sort, which is what the
\* engines run on short arrays; an entry goes behind every entry that does
\* not compare greater.
RECURSIVE SortInsert(_, _, _, _)
SortInsert(sorted, e, F, i) ==
  IF i > Len(sorted) THEN Append(sorted, e)
  ELSE IF Gt(zSorter(sorted[i], e, F), 0)
       THEN SubSeq(sorted, 1, i - 1) \o <<e>> \o SubSeq(sorted, i, Len(sorted))
       ELSE SortInsert(sorted, e, F, i + 1)
RECURSIVE ArraySort(_, _, _)
ArraySort(arr, F, n) ==
  IF n = 0 THEN << >>
  ELSE SortInsert(ArraySort(arr, F, n - 1), arr[n], F, 1)

\* a faulty projection that does not flip y
projectPointToCanvas_unflipped(rr, p) ==
  LET scale == rr.scale_
      Project(v) == P2(Add(Mul(Mul(p.x, v), scale), rr.xoff_),
                       Add(Mul(Mul(p.y, v), scale), scale))
  IN Project(Div(rr.camera.focal_length, Neg(p.z)))
projectPointToCanvas(rr, p) ==
  LET scale == rr.scale_
      Project(v) == P2(Add(Mul(Mul(p.x, v), scale), rr.xoff_),
                       Add(Mul(Mul(p.y, v), Neg(scale)), scale))
  IN Project(Div(rr.camera.focal_length, Neg(p.z)))

\* the slots of a face that hold a point: i0, i1, i2 and, for a quad, i3
Slots(qf) == IF isTriangle(qf) THEN <<qf.i0, qf.i1, qf.i2>>
             ELSE <<qf.i0, qf.i1, qf.i2, qf.i3>>

\* projectQuadFaceToCanvasIP(qf) on the face with id f: every slot is
\* replaced by a newly created projected point
projectQuadFaceToCanvasIP(rr, f, P, F) ==
  LET qf == F[f]
      old == Slots(qf)
      ids == NewIds(P, Len(old))
      P1 == Alloc(P, ids,
                  [k \in DOMAIN old |-> projectPointToCanvas(rr, P[old[k]])])
      qf1 == [qf EXCEPT !.i0 = ids[1], !.i1 = ids[2], !.i2 = ids[3],
                        !.i3 = IF isTriangle(qf) THEN null ELSE ids[4]]
  IN [P |-> P1, F |-> [F EXCEPT ![f] = qf1]]

\* pushPoints2dIP(a, b) on the points with ids a and b: the point heap after
pushPoints2dIP(P, a, b) ==
  LET Push(vec) ==
        [P EXCEPT ![b].x = Add(@, vec.x), ![b].y = Add(@, vec.y),
                  ![a].x = Sub(@, vec.x), ![a].y = Sub(@, vec.y)]
  IN Push(unitVector2d(subPoints2d(P[b], P[a])))

\* the overdraw block of drawBuffer for the projected face qf
Overdraw(P, qf) ==
  LET Rest(P2a) ==
        IF isTriangle(qf) THEN pushPoints2dIP(P2a, qf.i2, qf.i0)
        ELSE pushPoints2dIP(pushPoints2dIP(P2a, qf.i2, qf.i3), qf.i3, qf.i0)
  IN Rest(pushPoints2dIP(pushPoints2dIP(P, qf.i0, qf.i1), qf.i1, qf.i2))

\* a null number counts as 0 in arithmetic
N0(a) == IF a = null THEN 0 ELSE a

\* the canvas calls of drawCanvasTexturedTriangle
drawCanvasTexturedTriangle(im, x0, y0, x1, y1, x2, y2, u0, v0, u1, v1, u2, v2) ==
  LET sx0 == N0(u0)
      sy0 == N0(v0)
      sx1 == N0(u1)
      sy1 == N0(v1)
      sx2 == N0(u2)
      sy2 == N0(v2)
      Calls(denom) ==
        LET m11 == Div(Neg(Add(Add(Sub(Mul(sy0, Sub(x2, x1)), Mul(sy1, x2)),
                                 Mul(sy2, x1)),
                             Mul(Sub(sy1, sy2), x0))), denom)
            m12 == Div(Add(Sub(Add(Mul(sy1, y2), Mul(sy0, Sub(y1, y2))),
                             Mul(sy2, y1)),
                           Mul(Sub(sy2, sy1), y0)), denom)
            m21 == Div(Add(Add(Sub(Mul(sx0, Sub(x2, x1)), Mul(sx1, x2)),
                             Mul(sx2, x1)),
                           Mul(Sub(sx1, sx2), x0)), denom)
            m22 == Div(Neg(Add(Sub(Add(Mul(sx1, y2), Mul(sx0, Sub(y1, y2))),
                                 Mul(sx2, y1)),
                             Mul(Sub(sx2, sx1), y0))), denom)
            dx == Div(Add(Add(Mul(sx0, Sub(Mul(sy2, x1), Mul(sy1, x2))),
                              Mul(sy0, Sub(Mul(sx1, x2), Mul(sx2, x1)))),
                          Mul(Sub(Mul(sx2, sy1), Mul(sx1, sy2)), x0)), denom)
            dy == Div(Add(Add(Mul(sx0, Sub(Mul(sy2, y1), Mul(sy1, y2))),
                              Mul(sy0, Sub(Mul(sx1, y2), Mul(sx2, y1)))),
                          Mul(Sub(Mul(sx2, sy1), Mul(sx1, sy2)), y0)), denom)
        IN << <<"save">>, <<"beginPath">>, <<"moveTo", x0, y0>>,
              <<"lineTo", x1, y1>>, <<"lineTo", x2, y2>>, <<"closePath">>,
              <<"clip">>, <<"transform", m11, m12, m21, m22, dx, dy>>,
              <<"drawImage", im, 0, 0>>, <<"restore">> >>
  IN Calls(Add(Add(Sub(Mul(sx0, Sub(sy2, sy1)), Mul(sx1, sy2)),
                   Mul(sx2, sy1)),
               Mul(Sub(sx1, sx2), sy0)))

\* the canvas calls of drawBuffer that trace the polygon of a projected face
TraceCalls(P, qf) ==
  << <<"beginPath">>,
     <<"moveTo", P[qf.i0].x, P[qf.i0].y>>,
     <<"lineTo", P[qf.i1].x, P[qf.i1].y>>,
     <<"lineTo", P[qf.i2].x, P[qf.i2].y>> >>
  \o (IF isTriangle(qf) # TRUE
      THEN << <<"lineTo", P[qf.i3].x, P[qf.i3].y>> >> ELSE << >>)

\* the canvas calls of the fill block of drawBuffer for the entry obj
FillCalls(obj, C) ==
  IF obj.fill_rgba # null
  THEN LET frgba == C[obj.fill_rgba]
           iy == obj.intensity
       IN << <<"setFillColor", Mul(frgba.r, iy), Mul(frgba.g, iy),
               Mul(frgba.b, iy), frgba.a>>,
             <<"fill">> >>
  ELSE << >>

\* the canvas calls of the texture block
TextureCalls(obj, P, qf, T) ==
  IF obj.texture # null
  THEN LET texture == T[obj.texture]
       IN drawCanvasTexturedTriangle(texture.image,
            P[qf.i0].x, P[qf.i0].y, P[qf.i1].x, P[qf.i1].y,
            P[qf.i2].x, P[qf.i2].y,
            texture.u0, texture.v0, texture.u1, texture.v1,
            texture.u2, texture.v2)
          \o (IF ~isTriangle(qf)
              THEN drawCanvasTexturedTriangle(texture.image,
                     P[qf.i0].x, P[qf.i0].y, P[qf.i2].x, P[qf.i2].y,
                     P[qf.i3].x, P[qf.i3].y,
                     texture.u0, texture.v0, texture.u2, texture.v2,
                     texture.u3, texture.v3)
              ELSE << >>)
  ELSE << >>

\* a faulty stroke block, stroking with the colour values the colour object
\* was constructed with
StrokeCalls_copied(obj, C) ==
  IF obj.stroke_rgba # null
  THEN LET srgba == SceneRgba[obj.stroke_rgba]
       IN << <<"closePath">>,
             <<"setStrokeColor", srgba.r, srgba.g, srgba.b, srgba.a>>,
             <<"stroke">> >>
  ELSE << >>
\* the canvas calls of the stroke block
StrokeCalls(obj, C) ==
  IF obj.stroke_rgba # null
  THEN LET srgba == C[obj.stroke_rgba]
       IN << <<"closePath">>,
             <<"setStrokeColor", srgba.r, srgba.g, srgba.b, srgba.a>>,
             <<"stroke">> >>
  ELSE << >>

\* the canvas calls of one normal line block, for the colour nr and the
\* normal
NormalCalls(rr, nr, qf, normal, C) ==
  IF nr # null
  THEN LET Line(screen_centroid, screen_point) ==
             << <<"setStrokeColor", C[nr].r, C[nr].g, C[nr].b, C[nr].a>>,
                <<"beginPath">>,
                <<"moveTo", screen_centroid.x, screen_centroid.y>>,
                <<"lineTo", screen_point.x, screen_point.y>>,
                <<"stroke">> >>
       IN Line(projectPointToCanvas(rr, qf.centroid),
               projectPointToCanvas(rr,
                 addPoints3d(qf.centroid, unitVector3d(normal))))
  ELSE << >>

\* a faulty pass of drawBuffer's loop, filling with the fill colour the
\* renderer has when it draws
DrawFace_current(st, obj, rr, C, T) ==
  LET zs == [k \in DOMAIN Slots(st.F[obj.qf]) |->
               st.P[Slots(st.F[obj.qf])[k]].z]
      Emit(P1, F1, qf, calls) ==
        [P |-> P1, F |-> F1,
         ctx |-> st.ctx \o calls,
         drawn |-> Append(st.drawn,
                          [obj |-> obj, z |-> qf.centroid.z, zs |-> zs,
                           calls |-> calls])]
      Draw(P1, F1, qf) ==
        Emit(P1, F1, qf,
             TraceCalls(P1, qf)
             \o FillCalls([obj EXCEPT !.fill_rgba = rr.fill_rgba], C)
             \o TextureCalls(obj, P1, qf, T)
             \o StrokeCalls(obj, C)
             \o NormalCalls(rr, obj.normal1_rgba, qf, qf.normal1, C)
             \o NormalCalls(rr, obj.normal2_rgba, qf, qf.normal2, C))
      Projected(pr, qf) ==
        Draw(IF obj.draw_overdraw = TRUE THEN Overdraw(pr.P, qf) ELSE pr.P,
             pr.F, qf)
      Project(pr) == Projected(pr, pr.F[obj.qf])
  IN Project(projectQuadFaceToCanvasIP(rr, obj.qf, st.P, st.F))

\* One pass of drawBuffer's loop, for the entry obj, on
\* st = [P, F, ctx, drawn].  drawn records, for the face: its id, the z of
\* its centroid, the z each of its slots had when it was projected, and the
\* canvas calls made for it.
DrawFace(st, obj, rr, C, T) ==
  LET zs == [k \in DOMAIN Slots(st.F[obj.qf]) |->
               st.P[Slots(st.F[obj.qf])[k]].z]
      Emit(P1, F1, qf, calls) ==
        [P |-> P1, F |-> F1,
         ctx |-> st.ctx \o calls,
         drawn |-> Append(st.drawn,
                          [obj |-> obj, z |-> qf.centroid.z, zs |-> zs,
                           calls |-> calls])]
      Draw(P1, F1, qf) ==
        Emit(P1, F1, qf,
             TraceCalls(P1, qf)
             \o FillCalls(obj, C)
             \o TextureCalls(obj, P1, qf, T)
             \o StrokeCalls(obj, C)
             \o NormalCalls(rr, obj.normal1_rgba, qf, qf.normal1, C)
             \o NormalCalls(rr, obj.normal2_rgba, qf, qf.normal2, C))
      Projected(pr, qf) ==
        Draw(IF obj.draw_overdraw = TRUE THEN Overdraw(pr.P, qf) ELSE pr.P,
             pr.F, qf)
      Project(pr) == Projected(pr, pr.F[obj.qf])
  IN Project(projectQuadFaceToCanvasIP(rr, obj.qf, st.P, st.F))

RECURSIVE DrawLoop(_, _, _, _, _, _, _)
DrawLoop(st, all_quads, j, num_quads, rr, C, T) ==
  IF j >= num_quads THEN st
  ELSE DrawLoop(DrawFace(st, At(all_quads, j), rr, C, T),
                all_quads, j + 1, num_quads, rr, C, T)

\* a faulty drawBuffer that sorts a copy of the buffer
DrawBufferResult_sortedCopy(rr, P, F, C, T) ==
  LET num_quads == Len(rr.buffered_quads_)
      Result(st) ==
        [r |-> rr,
         P |-> st.P, F |-> st.F, ctx |-> st.ctx, drawn |-> st.drawn,
         ret |-> num_quads]
      Draw(all_quads) ==
        Result(DrawLoop([P |-> P, F |-> F, ctx |-> << >>, drawn |-> << >>],
                        all_quads, 0, num_quads, rr, C, T))
  IN Draw(IF rr.perform_z_sorting = TRUE
          THEN ArraySort(rr.buffered_quads_, F, num_quads)
          ELSE rr.buffered_quads_)
\* drawBuffer() as a whole: the renderer, the heaps, the canvas calls and
\* the value returned
DrawBufferResult(rr, P, F, C, T) ==
  LET num_quads == Len(rr.buffered_quads_)
      Result(all_quads, st) ==
        [r |-> [rr EXCEPT !.buffered_quads_ = all_quads],
         P |-> st.P, F |-> st.F, ctx |-> st.ctx, drawn |-> st.drawn,
         ret |-> num_quads]
      Draw(all_quads) ==
        Result(all_quads,
               DrawLoop([P |-> P, F |-> F, ctx |-> << >>, drawn |-> << >>],
                        all_quads, 0, num_quads, rr, C, T))
  IN Draw(IF rr.perform_z_sorting = TRUE
          THEN ArraySort(rr.buffered_quads_, F, num_quads)
          ELSE rr.buffered_quads_)

\* the options a page passes to drawPath: none, {fill: true}, {fill: false}
PathOpts == {[given |-> FALSE, fill |-> FALSE],
             [given |-> TRUE, fill |-> TRUE],
             [given |-> TRUE, fill |-> FALSE]}

\* a faulty curve command, cubic whatever the Curve
CurveCall_cubic(curve, screen_points) ==
  LET c0 == At(screen_points, curve.c0)
      ep == At(screen_points, curve.ep)
  IN <<"bezierCurveTo", c0.x, c0.y, c0.x, c0.y, ep.x, ep.y>>
\* the canvas call of drawPath for one Curve
CurveCall(curve, screen_points) ==
  IF isQuadratic(curve) = TRUE
  THEN LET c0 == At(screen_points, curve.c0)
           ep == At(screen_points, curve.ep)
       IN <<"quadraticCurveTo", c0.x, c0.y, ep.x, ep.y>>
  ELSE LET c0 == At(screen_points, curve.c0)
           c1 == At(screen_points, curve.c1)
           ep == At(screen_points, curve.ep)
       IN <<"bezierCurveTo", c0.x, c0.y, c1.x, c1.y, ep.x, ep.y>>

\* projectPointsToCanvas(ps) on the array ps of point ids: the new points
projectPointsToCanvas(rr, ps, P) ==
  [i \in DOMAIN ps |-> projectPointToCanvas(rr, P[ps[i]])]

\* drawPath(path, opts): the canvas calls, and the point heap afterwards
drawPath(rr, path, opts, P) ==
  LET curves == path.curves
      Trace(tp, screen_points, start_point) ==
        [P |-> tp.P,
         ctx |-> << <<"beginPath">>,
                    <<"moveTo", start_point.x, start_point.y>> >>
                 \o [j \in DOMAIN curves |->
                       CurveCall(curves[j], screen_points)]
                 \o (IF opts.given /\ opts.fill = TRUE
                     THEN << <<"fill">> >> ELSE << <<"stroke">> >>)]
      Start(t, tp, screen_points) ==
        Trace(tp, screen_points,
              IF path.starting_point = null
              THEN projectPointToCanvas(rr, transformPoint(t, P3(0, 0, 0)))
              ELSE At(screen_points, path.starting_point))
      Projected(t, tp) ==
        Start(t, tp, projectPointsToCanvas(rr, tp.out, tp.P))
      Transformed(t) == Projected(t, transformPoints(t, path.points, P))
  IN Transformed(multiplyAffine(rr.camera.transform, rr.transform))

----
\* The operations of a page on its Renderer

\* how many operations a run makes, and how many entries it buffers
MaxOps == 3
MaxBuffered == 4

\* An operation is called: last names it and its argument, and the logs of
\* the operation before are dropped.
Step(name, arg) == /\ nops < MaxOps
                   /\ nops' = nops + 1
                   /\ last' = <<name, arg>>
                   /\ UNCHANGED clock

NoCanvas == ctx' = << >> /\ buffered' = << >> /\ drawn' = << >>

\* the values a page assigns
Colours == {null, 1, 2}
Translations == {Num(0 - 1), Num(1)}
FocalLengths == {Unit, 2 * Unit}
\* the colour a page writes with setRGBA
NewColour == RGBA(0, 0, Unit, Unit \div 2)
\* the colour objects a page reaches through the renderer
RendererColours == {r.fill_rgba, r.stroke_rgba} \ {null}

scene == <<shapes, paths, mesh, ex, xf>>

SetPerformZSorting ==
  /\ Step("perform_z_sorting", null)
  /\ r' = [r EXCEPT !.perform_z_sorting = ~@]
  /\ NoCanvas
  /\ UNCHANGED <<pts, faces, rgba, textures, scene>>

SetDrawOverdraw ==
  /\ Step("draw_overdraw", null)
  /\ r' = [r EXCEPT !.draw_overdraw = ~@]
  /\ NoCanvas
  /\ UNCHANGED <<pts, faces, rgba, textures, scene>>

SetDrawBackfaces ==
  /\ Step("draw_backfaces", null)
  /\ r' = [r EXCEPT !.draw_backfaces = ~@]
  /\ NoCanvas
  /\ UNCHANGED <<pts, faces, rgba, textures, scene>>

SetFillRgba(c) ==
  /\ c # r.fill_rgba
  /\ Step("fill_rgba", c)
  /\ r' = [r EXCEPT !.fill_rgba = c]
  /\ NoCanvas
  /\ UNCHANGED <<pts, faces, rgba, textures, scene>>

SetStrokeRgba(c) ==
  /\ c # r.stroke_rgba
  /\ Step("stroke_rgba", c)
  /\ r' = [r EXCEPT !.stroke_rgba = c]
  /\ NoCanvas
  /\ UNCHANGED <<pts, faces, rgba, textures, scene>>

SetTexture(t) ==
  /\ t # r.texture
  /\ Step("texture", t)
  /\ r' = [r EXCEPT !.texture = t]
  /\ NoCanvas
  /\ UNCHANGED <<pts, faces, rgba, textures, scene>>

SetNormal1Rgba(c) ==
  /\ c # r.normal1_rgba
  /\ Step("normal1_rgba", c)
  /\ r' = [r EXCEPT !.normal1_rgba = c]
  /\ NoCanvas
  /\ UNCHANGED <<pts, faces, rgba, textures, scene>>

SetNormal2Rgba(c) ==
  /\ c # r.normal2_rgba
  /\ Step("normal2_rgba", c)
  /\ r' = [r EXCEPT !.normal2_rgba = c]
  /\ NoCanvas
  /\ UNCHANGED <<pts, faces, rgba, textures, scene>>

SetQuadCallback(cb) ==
  /\ cb # r.quad_callback
  /\ Step("quad_callback", cb)
  /\ r' = [r EXCEPT !.quad_callback = cb]
  /\ NoCanvas
  /\ UNCHANGED <<pts, faces, rgba, textures, scene>>

\* c.invert() on the colour object c
RgbaInvert(c) ==
  /\ Step("invert", c)
  /\ rgba' = [rgba EXCEPT ![c] = RGBA_invert(@)]
  /\ NoCanvas
  /\ UNCHANGED <<pts, faces, textures, scene, r>>

\* c.setRGBA(...) on the colour object c
RgbaSetRGBA(c) ==
  /\ rgba[c] # NewColour
  /\ Step("setRGBA", c)
  /\ rgba' = [rgba EXCEPT ![c] = RGBA_setRGBA(@, NewColour.r, NewColour.g,
                                               NewColour.b, NewColour.a)]
  /\ NoCanvas
  /\ UNCHANGED <<pts, faces, textures, scene, r>>

\* renderer.transform.translate(0, 0, dz)
TransformTranslate(dz) ==
  /\ Step("translate", dz)
  /\ r' = [r EXCEPT !.transform = Transform_translate(@, 0, 0, dz)]
  /\ NoCanvas
  /\ UNCHANGED <<pts, faces, rgba, textures, scene>>

\* renderer.transform.rotateY(PI)
TransformRotateY ==
  /\ Step("rotateY", null)
  /\ r' = [r EXCEPT !.transform = Transform_rotateY(@, PI)]
  /\ NoCanvas
  /\ UNCHANGED <<pts, faces, rgba, textures, scene>>

\* renderer.camera.focal_length = f
SetFocalLength(f) ==
  /\ f # r.camera.focal_length
  /\ Step("focal_length", f)
  /\ r' = [r EXCEPT !.camera.focal_length = f]
  /\ NoCanvas
  /\ UNCHANGED <<pts, faces, rgba, textures, scene>>

\* renderer.camera.transform.translate(0, 0, -1)
CameraTranslate ==
  /\ Step("camera", null)
  /\ r' = [r EXCEPT !.camera.transform =
                       Transform_translate(@, 0, 0, Num(0 - 1))]
  /\ NoCanvas
  /\ UNCHANGED <<pts, faces, rgba, textures, scene>>

\* renderer.bufferShape(shapes[s])
BufferShape(s) ==
  /\ Len(r.buffered_quads_) + Len(shapes[s].quads) <= MaxBuffered
  /\ Step("bufferShape", s)
  /\ \E res \in {BufferShapeResult(r, shapes[s], pts, faces)} :
        /\ r' = res.r
        /\ faces' = Collect(res.F, LiveFaces(res.r, shapes))
        /\ pts' = Collect(res.P, LivePoints(res.r, res.F, shapes, paths))
        /\ buffered' = res.buffered
  /\ ctx' = << >>
  /\ drawn' = << >>
  /\ UNCHANGED <<rgba, textures, scene>>

\* renderer.drawBuffer()
DrawBuffer ==
  /\ Step("drawBuffer", null)
  /\ \E res \in {DrawBufferResult(r, pts, faces, rgba, textures)} :
        /\ r' = res.r
        /\ faces' = Collect(res.F, LiveFaces(res.r, shapes))
        /\ pts' = Collect(res.P, LivePoints(res.r, res.F, shapes, paths))
        /\ ctx' = res.ctx
        /\ drawn' = res.drawn
  /\ buffered' = << >>
  /\ UNCHANGED <<rgba, textures, scene>>

\* renderer.emptyBuffer()
EmptyBuffer ==
  /\ Step("emptyBuffer", null)
  /\ r' = [r EXCEPT !.buffered_quads_ = << >>]
  /\ faces' = Collect(faces, LiveFaces(r', shapes))
  /\ pts' = Collect(pts, LivePoints(r', faces, shapes, paths))
  /\ NoCanvas
  /\ UNCHANGED <<rgba, textures, scene>>

\* renderer.drawPath(paths[p], opts)
DrawPath(p, opts) ==
  /\ nops < MaxOps
  /\ nops' = nops + 1
  /\ last' = <<"drawPath", p, opts>>
  /\ \E res \in {drawPath(r, paths[p], opts, pts)} :
        /\ ctx' = res.ctx
        /\ pts' = Collect(res.P, LivePoints(r, faces, shapes, paths))
  /\ buffered' = << >>
  /\ drawn' = << >>
  /\ UNCHANGED <<faces, rgba, textures, scene, r, clock>>

Next ==
  \/ SetPerformZSorting
  \/ SetDrawOverdraw
  \/ SetDrawBackfaces
  \/ \E c \in Colours : SetFillRgba(c)
  \/ \E c \in {null, 2} : SetStrokeRgba(c)
  \/ \E t \in {null, 1} : SetTexture(t)
  \/ \E c \in {null, 2} : SetNormal1Rgba(c)
  \/ \E c \in {null, 2} : SetNormal2Rgba(c)
  \/ \E cb \in {null} \cup QuadCallbacks : SetQuadCallback(cb)
  \/ \E c \in RendererColours : RgbaInvert(c)
  \/ \E c \in RendererColours : RgbaSetRGBA(c)
  \/ \E dz \in Translations : TransformTranslate(dz)
  \/ TransformRotateY
  \/ \E f \in FocalLengths : SetFocalLength(f)
  \/ CameraTranslate
  \/ \E s \in DOMAIN shapes : BufferShape(s)
  \/ DrawBuffer
  \/ EmptyBuffer
  \/ \E p \in DOMAIN paths : \E opts \in PathOpts : DrawPath(p, opts)

Spec == Init /\ [][Next]_vars

----
\* The operations of a page on a Shape: it builds the Shape, then edits it
\* with the operators of ShapeUtils and with its Extruder.

\* how many operations a run makes on the Shape it built, how many faces a
\* Shape may have for an operator to be called on it, and the finest
\* tessellation of a sphere
MaxMeshOps == 3
MaxQuads == 32
MaxTess == 3

rendering == <<pts, faces, rgba, textures, shapes, paths, r, ctx, buffered,
               drawn, xf>>

\* the shape is built
Build(name, arg, shape) ==
  /\ nops = 0
  /\ nops' = 1
  /\ last' = <<name, arg>>
  /\ mesh' = shape
  /\ UNCHANGED <<ex, rendering, clock>>

\* an operator is called on the shape that was built
Edit(name, arg) ==
  /\ nops >= 1
  /\ nops <= MaxMeshOps
  /\ Len(mesh.quads) <= MaxQuads
  /\ nops' = nops + 1
  /\ last' = <<name, arg>>
  /\ UNCHANGED <<rendering, clock>>

\* the corners a page gives a plane: a unit square, or a folded one
PlaneCorners ==
  { << P3(0, 0, 0), P3(Unit, 0, 0), P3(Unit, Unit, 0), P3(0, Unit, 0) >>,
    << P3(0, 0, 0), P3(Unit, 0, 0), P3(Unit, Unit, Unit), P3(0, Unit, 0) >> }

MakePlane(c) == Build("makePlane", null, makePlane(c[1], c[2], c[3], c[4]))

MakeBox == Build("makeBox", null, makeBox(Unit, 2 * Unit, Unit))

MakeCube == Build("makeCube", null, makeCube(Unit))

\* The page fills a new Shape() itself, as the properties of a Shape are
\* public, and calls rebuildMeta: a quad, and a fifth vertex that no face
\* uses.
MakeShape ==
  Build("Shape", null,
        rebuildMeta(Shape(<< P3(0, 0, 0), P3(Unit, 0, 0), P3(Unit, Unit, 0),
                             P3(0, Unit, 0), P3(0, 0, Unit) >>,
                          << QuadFace(0, 1, 2, 3) >>)))

MakeBoxWithHole ==
  Build("makeBoxWithHole", null,
        makeBoxWithHole(Unit, Unit, Unit, Unit \div 2, Unit \div 2))

MakeOctahedron == Build("makeOctahedron", null, makeOctahedron)

MakeSphere(tess_x, tess_y) ==
  Build("makeSphere", <<tess_x, tess_y>>, makeSphere(Unit, tess_x, tess_y))

Triangulate ==
  /\ Edit("triangulate", null)
  /\ mesh' = triangulate(mesh)
  /\ UNCHANGED ex

LinearSubdivide ==
  /\ allQuads(mesh)
  /\ Edit("linearSubdivide", null)
  /\ mesh' = linearSubdivide(mesh)
  /\ UNCHANGED ex

LinearSubdivideTri ==
  /\ Edit("linearSubdivideTri", null)
  /\ mesh' = linearSubdivideTri(mesh)
  /\ UNCHANGED ex

\* averageSmooth(shape, m).  On a triangle the loop reads p4 =
\* vertices[quad.i3] = vertices[null], which is undefined, and p4.x throws a
\* TypeError before shape.vertices is assigned: the shape stays as it was.
AverageSmooth(m) ==
  /\ Edit("averageSmooth", m)
  /\ mesh' = IF allQuads(mesh) THEN averageSmooth(mesh, m) ELSE mesh
  /\ UNCHANGED ex

ExplodeFaces ==
  /\ Edit("explodeFaces", null)
  /\ mesh' = explodeFaces(mesh)
  /\ UNCHANGED ex

\* forEachVertex(shape, function(v, i, s) { s.vertices[i] = unitVector3d(v) })
ForEachVertex ==
  /\ Edit("forEachVertex", null)
  /\ mesh' = [mesh EXCEPT !.vertices =
                [i \in DOMAIN @ |-> unitVector3d(@[i])]]
  /\ UNCHANGED ex

\* rebuildMeta(shape), called by the page
RebuildMeta ==
  /\ Edit("rebuildMeta", null)
  /\ mesh' = rebuildMeta(mesh)
  /\ UNCHANGED ex

\* extruder.set_count(c)
SetCount(c) ==
  /\ c # ex.count_
  /\ Edit("set_count", c)
  /\ ex' = [ex EXCEPT !.count_ = c]
  /\ UNCHANGED mesh

\* extruder.selectCustom(selectFirst)
SelectCustom ==
  /\ ex.selector_ # selectFirst
  /\ Edit("selectCustom", selectFirst)
  /\ ex' = [ex EXCEPT !.selector_ = selectFirst]
  /\ UNCHANGED mesh

\* extruder.extrude(shape)
Extrude ==
  /\ Edit("extrude", null)
  /\ mesh' = extrude(ex, mesh)
  /\ UNCHANGED ex

NextMesh ==
  \/ \E c \in PlaneCorners : MakePlane(c)
  \/ MakeBox
  \/ MakeCube
  \/ MakeShape
  \/ MakeBoxWithHole
  \/ MakeOctahedron
  \/ \E tess_x \in 1..MaxTess : \E tess_y \in 1..MaxTess :
       MakeSphere(tess_x, tess_y)
  \/ Triangulate
  \/ LinearSubdivide
  \/ LinearSubdivideTri
  \/ \E m \in {0, Unit} : AverageSmooth(m)
  \/ ExplodeFaces
  \/ ForEachVertex
  \/ RebuildMeta
  \/ \E c \in {1, 2} : SetCount(c)
  \/ SelectCustom
  \/ Extrude

SpecMesh == Init /\ [][NextMesh]_vars

----
\* The operations of a page on renderer.transform and on the transform stack.
\* Here Transforms and their matrices are objects: r.transform holds the id
\* of a Transform, or undefined, and r.transform_stack_ the ids of the saved
\* Transforms.

\* how many operations a run makes on the transform
MaxTransformOps == 3

\* the 4x4 matrix an AffineMatrix stands for, row by row
Full(m) ==
  << <<m.e0, m.e1, m.e2, m.e3>>, <<m.e4, m.e5, m.e6, m.e7>>,
     <<m.e8, m.e9, m.e10, m.e11>>, <<0, 0, 0, Unit>> >>

\* the product a x b of two 4x4 matrices, every term of it computed
Times4(a, b) ==
  [i \in 1..4 |->
     [j \in 1..4 |-> Add4(Mul(a[i][1], b[1][j]), Mul(a[i][2], b[2][j]),
                          Mul(a[i][3], b[3][j]), Mul(a[i][4], b[4][j]))]]

\* the 4x4 matrix full with its upper left 3x3 block replaced as setDCM
\* replaces it
SetDCM4(full, u, v, w) ==
  << <<u.x, v.x, w.x, full[1][4]>>, <<u.y, v.y, w.y, full[2][4]>>,
     <<u.z, v.z, w.z, full[3][4]>>, full[4] >>

\* A page that works with the transform stack: new Renderer(canvas) made
\* renderer.transform, Transform 1 with the identity matrix 1.
InitTransform ==
  /\ InitScene
  /\ \E canvas \in CanvasSizes : r = [Renderer(canvas) EXCEPT !.transform = 1]
  /\ transforms = << [m |-> 1, full |-> Full(makeIdentityAffine)] >>
  /\ matrices = << makeIdentityAffine >>
  /\ pushed = << >>
  /\ prior = null

\* the matrix of the Transform object t, and of renderer.transform
MatrixOf(t, X, M) == IF t = Undefined THEN Undefined ELSE M[X[t].m]
Matrix == MatrixOf(r.transform, transforms, matrices)

\* a faulty dup, whose Transform holds the matrix object of the original
Transform_dup_shared(t, X, M) ==
  LET ret == MaxId(X) + 1
  IN [transforms |-> Alloc(X, <<ret>>, <<[m |-> X[t].m, full |-> X[t].full]>>),
      matrices |-> M,
      ret |-> ret]
\* this.dup() on the Transform t: the heaps with the new Transform and its
\* new matrix, and the id returned
Transform_dup(t, X, M) ==
  LET ret == MaxId(X) + 1
      tm == MaxId(M) + 1
  IN [transforms |-> Alloc(X, <<ret>>, <<[m |-> tm, full |-> X[t].full]>>),
      matrices |-> Alloc(M, <<tm>>, <<dupAffine(M[X[t].m])>>),
      ret |-> ret]

\* An operation of the page is called.
Call(name, arg) ==
  /\ nops < MaxTransformOps
  /\ nops' = nops + 1
  /\ last' = <<name, arg>>
  /\ prior' = Matrix
  /\ UNCHANGED <<pts, faces, rgba, textures, shapes, paths, mesh, ex, ctx,
                 buffered, drawn, clock>>

\* A method of renderer.transform is called; on undefined the call throws.
On(name, arg) == r.transform # Undefined /\ Call(name, arg)

\* this.m = m on renderer.transform, m a newly created AffineMatrix
SetMatrix(m, full) ==
  /\ \E tm \in {MaxId(matrices) + 1} :
        /\ matrices' = Alloc(matrices, <<tm>>, <<m>>)
        /\ transforms' = [transforms EXCEPT ![r.transform] =
                                              [m |-> tm, full |-> full]]
  /\ UNCHANGED <<r, pushed>>

\* the product of the operations of renderer.transform so far
FullNow == transforms[r.transform].full

\* the values a page passes
QuarterTurn == Unit
RotateXAngles == {QuarterTurn, Neg(QuarterTurn), QuarterTurn \div 2,
                  Neg(QuarterTurn \div 2)}
RotateYAngles == {QuarterTurn, NaN}
DCMAxes == << P3(0, Unit, 0), P3(0, 0, Unit), P3(Unit, 0, 0) >>

Reset ==
  /\ On("reset", null)
  /\ SetMatrix(makeIdentityAffine, Full(makeIdentityAffine))

RotateX(theta) ==
  /\ On("rotateX", theta)
  /\ SetMatrix(Transform_rotateX(Matrix, theta),
               Times4(Full(makeRotateAffineX(theta)), FullNow))

RotateXPre(theta) ==
  /\ On("rotateXPre", theta)
  /\ SetMatrix(Transform_rotateXPre(Matrix, theta),
               Times4(FullNow, Full(makeRotateAffineX(theta))))

RotateY(theta) ==
  /\ On("rotateY", theta)
  /\ SetMatrix(Transform_rotateY(Matrix, theta),
               Times4(Full(makeRotateAffineY(theta)), FullNow))

RotateYPre(theta) ==
  /\ On("rotateYPre", theta)
  /\ SetMatrix(Transform_rotateYPre(Matrix, theta),
               Times4(FullNow, Full(makeRotateAffineY(theta))))

RotateZ(theta) ==
  /\ On("rotateZ", theta)
  /\ SetMatrix(Transform_rotateZ(Matrix, theta),
               Times4(Full(makeRotateAffineZ(theta)), FullNow))

RotateZPre(theta) ==
  /\ On("rotateZPre", theta)
  /\ SetMatrix(Transform_rotateZPre(Matrix, theta),
               Times4(FullNow, Full(makeRotateAffineZ(theta))))

Translate(d) ==
  /\ On("translate", d)
  /\ SetMatrix(Transform_translate(Matrix, d.x, d.y, d.z),
               Times4(Full(makeTranslateAffine(d.x, d.y, d.z)), FullNow))

TranslatePre(d) ==
  /\ On("translatePre", d)
  /\ SetMatrix(Transform_translatePre(Matrix, d.x, d.y, d.z),
               Times4(FullNow, Full(makeTranslateAffine(d.x, d.y, d.z))))

Scale(s) ==
  /\ On("scale", s)
  /\ SetMatrix(Transform_scale(Matrix, s.x, s.y, s.z),
               Times4(Full(makeScaleAffine(s.x, s.y, s.z)), FullNow))

ScalePre(s) ==
  /\ On("scalePre", s)
  /\ SetMatrix(Transform_scalePre(Matrix, s.x, s.y, s.z),
               Times4(FullNow, Full(makeScaleAffine(s.x, s.y, s.z))))

\* renderer.transform.multTransform(t) for a Transform t of the page
MultTransform(t) ==
  /\ On("multTransform", t)
  /\ SetMatrix(Transform_multTransform(Matrix,
                                       MatrixOf(t, transforms, matrices)),
               Times4(FullNow, transforms[t].full))

\* renderer.transform.setDCM(u, v, w): the matrix object itself is written
SetDCM(u, v, w) ==
  /\ On("setDCM", <<u, v, w>>)
  /\ matrices' = [matrices EXCEPT ![transforms[r.transform].m] =
                                    Transform_setDCM(@, u, v, w)]
  /\ transforms' = [transforms EXCEPT ![r.transform].full =
                                        SetDCM4(@, u, v, w)]
  /\ UNCHANGED <<r, pushed>>

\* var t = renderer.transform.dup(): the page keeps the new Transform
Dup ==
  /\ On("dup", null)
  /\ \E d \in {Transform_dup(r.transform, transforms, matrices)} :
        /\ transforms' = d.transforms
        /\ matrices' = d.matrices
  /\ UNCHANGED <<r, pushed>>

\* renderer.pushTransform()
PushTransform ==
  /\ On("pushTransform", null)
  /\ \E d \in {Transform_dup(r.transform, transforms, matrices)} :
        /\ transforms' = d.transforms
        /\ matrices' = d.matrices
        /\ r' = [r EXCEPT !.transform_stack_ = Append(@, d.ret)]
  /\ pushed' = Append(pushed, Matrix)

\* renderer.popTransform(): Array.prototype.pop gives undefined on an empty
\* array
PopTransform ==
  /\ Call("popTransform", null)
  /\ r' = [r EXCEPT
             !.transform = IF r.transform_stack_ = << >> THEN Undefined
                           ELSE r.transform_stack_[Len(r.transform_stack_)],
             !.transform_stack_ = IF @ = << >> THEN @
                                  ELSE SubSeq(@, 1, Len(@) - 1)]
  /\ pushed' = IF pushed = << >> THEN pushed
               ELSE SubSeq(pushed, 1, Len(pushed) - 1)
  /\ UNCHANGED <<transforms, matrices>>

NextTransform ==
  \/ Reset
  \/ \E theta \in RotateXAngles : RotateX(theta)
  \/ RotateXPre(QuarterTurn)
  \/ \E theta \in RotateYAngles : RotateY(theta)
  \/ RotateYPre(QuarterTurn)
  \/ RotateZ(QuarterTurn)
  \/ RotateZPre(QuarterTurn)
  \/ Translate(P3(Num(1), 0, 0))
  \/ TranslatePre(P3(0, Num(2), 0))
  \/ Scale(P3(Num(2), Num(2), Num(2)))
  \/ ScalePre(P3(Num(2), Num(1), Num(3)))
  \/ \E t \in DOMAIN transforms : MultTransform(t)
  \/ SetDCM(DCMAxes[1], DCMAxes[2], DCMAxes[3])
  \/ Dup
  \/ PushTransform
  \/ PopTransform

SpecTransform == InitTransform /\ [][NextTransform]_vars

----
\* Properties of the Renderer

\* C1: with perform_z_sorting true, drawBuffer emits the buffered faces in
\* nondecreasing order of the camera-space z of their centroids, farthest
\* first, whatever bufferShape calls filled the buffer.
C1_EmittedBackToFront ==
  (last[1] = "drawBuffer" /\ r.perform_z_sorting = TRUE)
    => \A i, j \in DOMAIN drawn : i < j => drawn[i].z <= drawn[j].z

\* a drawBuffer with z-sorting that emitted a face buffered later (its world
\* face was created later) before a nearer face buffered earlier
C1_Witness ==
  /\ last[1] = "drawBuffer"
  /\ r.perform_z_sorting = TRUE
  /\ \E i, j \in DOMAIN drawn :
       i < j /\ drawn[i].z < drawn[j].z /\ drawn[i].obj.qf > drawn[j].obj.qf

\* C2: every entry of the draw buffer has a camera-space centroid with
\* z < -1, in every reachable state; and bufferShape discards every face it
\* looks at whose transformed centroid has z >= -1.
C2_BufferedBehindMinusOne ==
  /\ \A k \in DOMAIN r.buffered_quads_ :
       Lt(faces[r.buffered_quads_[k].qf].centroid.z, Neg(Unit))
  /\ \A k \in DOMAIN buffered :
       (buffered[k].outcome # "skipped"
        /\ Ge(buffered[k].centroid.z, Neg(Unit)))
         => buffered[k].outcome = "near"

\* a bufferShape that discarded a face whose centroid is at exactly z = -1,
\* while the buffer holds faces
C2_Witness ==
  /\ last[1] = "bufferShape"
  /\ Len(r.buffered_quads_) > 0
  /\ \E k \in DOMAIN buffered :
       buffered[k].outcome = "near" /\ buffered[k].centroid.z = Neg(Unit)

\* C3: no face drawn by drawBuffer has a vertex that is projected with a
\* camera-space z equal to 0.
C3_NoVertexAtZeroProjected ==
  last[1] = "drawBuffer"
    => \A i \in DOMAIN drawn : \A k \in DOMAIN drawn[i].zs :
         drawn[i].zs[k] # 0

\* C4: of the faces that pass the near cull, bufferShape leaves out the ones
\* whose two transformed normals both have a positive dot product with the
\* transformed centroid when draw_backfaces is false, adds them when it is
\* true, and adds every other face in both cases; draw_backfaces is the
\* value the renderer has when bufferShape is called.
C4_BackfaceCull ==
  [][last'[1] = "bufferShape" =>
       \A k \in DOMAIN buffered' :
         buffered'[k].outcome \in {"added", "backface"} =>
           LET both == Gt(buffered'[k].dot1, 0) /\ Gt(buffered'[k].dot2, 0)
               added == /\ buffered'[k].outcome = "added"
                        /\ \E e \in DOMAIN r'.buffered_quads_ :
                             r'.buffered_quads_[e].qf = buffered'[k].qf
           IN added <=> (~both \/ r.draw_backfaces = TRUE)]_vars

\* a bufferShape with draw_backfaces false that left out a face with both
\* dot products positive and added a face with only one of them positive
C4_Witness ==
  /\ last[1] = "bufferShape"
  /\ r.draw_backfaces = FALSE
  /\ \E k \in DOMAIN buffered :
       /\ buffered[k].outcome = "backface"
       /\ Gt(buffered[k].dot1, 0) /\ Gt(buffered[k].dot2, 0)
  /\ \E k \in DOMAIN buffered :
       /\ buffered[k].outcome = "added"
       /\ Gt(buffered[k].dot1, 0) # Gt(buffered[k].dot2, 0)

\* a bufferShape with draw_backfaces true that added a face with both dot
\* products positive
C4_WitnessBackfacesDrawn ==
  /\ last[1] = "bufferShape"
  /\ r.draw_backfaces = TRUE
  /\ \E k \in DOMAIN buffered :
       /\ buffered[k].outcome = "added"
       /\ Gt(buffered[k].dot1, 0) /\ Gt(buffered[k].dot2, 0)

\* C5: assigning another colour or texture object to fill_rgba, stroke_rgba,
\* texture, normal1_rgba or normal2_rgba, or changing draw_overdraw, does
\* not change what a drawBuffer emits for the faces already buffered.
C5_ReassignKeepsEmission ==
  [][(last'[1] \in {"fill_rgba", "stroke_rgba", "texture", "normal1_rgba",
                    "normal2_rgba", "draw_overdraw"})
       => DrawBufferResult(r', pts', faces', rgba', textures').ctx
            = DrawBufferResult(r, pts, faces, rgba, textures).ctx]_vars

\* a reassignment made while the buffer holds a face that captured another
\* value than the renderer has now
C5_Witness ==
  /\ last[1] \in {"fill_rgba", "stroke_rgba", "texture", "normal1_rgba",
                  "normal2_rgba", "draw_overdraw"}
  /\ \E k \in DOMAIN r.buffered_quads_ :
       LET e == r.buffered_quads_[k]
       IN <<e.fill_rgba, e.stroke_rgba, e.texture, e.normal1_rgba,
            e.normal2_rgba, e.draw_overdraw>>
          # <<r.fill_rgba, r.stroke_rgba, r.texture, r.normal1_rgba,
               r.normal2_rgba, r.draw_overdraw>>

C6_WitnessFill ==
  /\ last[1] \in {"invert", "setRGBA"}
  /\ \E k \in DOMAIN r.buffered_quads_ :
       r.buffered_quads_[k].fill_rgba = last[2]

\* C7: drawBuffer does not clear the buffer, and a second drawBuffer called
\* right after a first draws the same faces at the same screen coordinates.
C7_RepeatedDrawSame ==
  [][(last[1] = "drawBuffer" /\ last'[1] = "drawBuffer") =>
       /\ Len(r'.buffered_quads_) = Len(r.buffered_quads_)
       /\ Len(drawn') = Len(drawn)
       /\ \A k \in DOMAIN drawn :
            /\ drawn'[k].obj = drawn[k].obj
            /\ SelectSeq(drawn'[k].calls,
                         LAMBDA c : c[1] \in {"moveTo", "lineTo"})
                 = SelectSeq(drawn[k].calls,
                             LAMBDA c : c[1] \in {"moveTo", "lineTo"})]_vars

\* C8: bufferShape, drawBuffer and drawPath leave the Shapes and Paths of
\* the page as they were: vertex positions, faces with their indices,
\* centroid and normals, path points, curves and starting_point.
C8_SceneUntouched ==
  [][(last'[1] \in {"bufferShape", "drawBuffer", "drawPath"}) =>
       (<<shapes, paths,
          [s \in DOMAIN shapes |->
             <<[k \in DOMAIN shapes[s].vertices |-> pts[shapes[s].vertices[k]]],
               [k \in DOMAIN shapes[s].quads |-> faces[shapes[s].quads[k]]]>>],
          [p \in DOMAIN paths |->
             [k \in DOMAIN paths[p].points |-> pts[paths[p].points[k]]]]>>)'
       = <<shapes, paths,
           [s \in DOMAIN shapes |->
              <<[k \in DOMAIN shapes[s].vertices |-> pts[shapes[s].vertices[k]]],
                [k \in DOMAIN shapes[s].quads |-> faces[shapes[s].quads[k]]]>>],
           [p \in DOMAIN paths |->
              [k \in DOMAIN paths[p].points |-> pts[paths[p].points[k]]]]>>]_vars

\* a drawBuffer that drew faces buffered under a transform other than the
\* identity
C8_Witness ==
  /\ last[1] = "drawBuffer"
  /\ Len(drawn) > 0
  /\ r.transform # makeIdentityAffine

----
\* Properties of ShapeUtils

\* C10: index validity is kept by the mesh operators: in the shape a builder
\* made and in the shape after every operator called on it, i0, i1 and i2 of
\* every face, and i3 when it is not null, are indices of vertices.
C10_IndexValid ==
  \A k \in DOMAIN mesh.quads :
    LET qf == mesh.quads[k]
        n == Len(mesh.vertices)
    IN /\ qf.i0 \in 0..(n - 1)
       /\ qf.i1 \in 0..(n - 1)
       /\ qf.i2 \in 0..(n - 1)
       /\ qf.i3 = null \/ qf.i3 \in 0..(n - 1)

\* a shape with triangles and quads after three operators, the last of
\* which added vertices and faces
C10_Witness ==
  /\ nops = MaxMeshOps + 1
  /\ last[1] \in {"extrude", "linearSubdivide", "linearSubdivideTri",
                  "explodeFaces"}
  /\ \E k \in DOMAIN mesh.quads : isTriangle(mesh.quads[k])
  /\ \E k \in DOMAIN mesh.quads : ~isTriangle(mesh.quads[k])
  /\ Len(mesh.vertices) > MaxQuads

----
\* The transform stack and Transform

C11_WitnessEmpty ==
  /\ last[1] = "popTransform"
  /\ r.transform = Undefined

\* the operations that compose a matrix on the left of this.m, and the Pre
\* variants, which compose it on the right
PostOps == {"rotateX", "rotateY", "rotateZ", "translate", "scale"}
PreOps == {"rotateXPre", "rotateYPre", "rotateZPre", "translatePre",
           "scalePre"}

\* the matrix the operation op = <<name, argument>> composes
OpMatrix(op) ==
  IF op[1] \in {"rotateX", "rotateXPre"} THEN makeRotateAffineX(op[2])
  ELSE IF op[1] \in {"rotateY", "rotateYPre"} THEN makeRotateAffineY(op[2])
  ELSE IF op[1] \in {"rotateZ", "rotateZPre"} THEN makeRotateAffineZ(op[2])
  ELSE IF op[1] \in {"translate", "translatePre"}
       THEN makeTranslateAffine(op[2].x, op[2].y, op[2].z)
  ELSE makeScaleAffine(op[2].x, op[2].y, op[2].z)

\* the coefficients of an AffineMatrix
Coefficients(m) ==
  {m.e0, m.e1, m.e2, m.e3, m.e4, m.e5, m.e6, m.e7, m.e8, m.e9, m.e10, m.e11}
\* every coefficient is a finite number
FiniteMatrix(m) == \A e \in Coefficients(m) : IsFin(e)
\* every coefficient is a whole number: products with it are exact here
WholeMatrix(m) == \A e \in Coefficients(m) : IsFin(e) /\ e % Unit = 0

\* the points a page transforms
Probes == { P3(Num(1), 0, 0), P3(0, Num(1), 0), P3(0, 0, Num(1)),
            P3(Num(1), Num(2), Num(3)) }

\* C12, as the code has it: a non-Pre operation is applied to a point after
\* the transform already held, a Pre variant before it.  Stated for the
\* operations whose matrix has whole coefficients, on a finite transform.
C12_PostAppliesAfter ==
  [][(last'[1] \in PostOps \cup PreOps /\ FiniteMatrix(Matrix)) =>
       \A op \in {OpMatrix(last')} :
       \A m \in {MatrixOf(r'.transform, transforms', matrices')} :
         WholeMatrix(op) =>
           \A p \in Probes :
             transformPoint(m, p) =
               IF last'[1] \in PostOps
               THEN transformPoint(op, transformPoint(Matrix, p))
               ELSE transformPoint(Matrix, transformPoint(op, p))]_vars

\* C12, as it is stated: a non-Pre operation is applied to a point before
\* the transform already held, a Pre variant after it.
C12_PostAppliesBefore ==
  [][(last'[1] \in PostOps \cup PreOps /\ FiniteMatrix(Matrix)) =>
       \A op \in {OpMatrix(last')} :
       \A m \in {MatrixOf(r'.transform, transforms', matrices')} :
         WholeMatrix(op) =>
           \A p \in Probes :
             transformPoint(m, p) =
               IF last'[1] \in PostOps
               THEN transformPoint(Matrix, transformPoint(op, p))
               ELSE transformPoint(op, transformPoint(Matrix, p))]_vars

\* translate was called on a transform that scale had made, and a point is
\* mapped to translate(scale(p)), which differs from scale(translate(p))
C12_Witness ==
  /\ last[1] = "translate"
  /\ prior = makeScaleAffine(Num(2), Num(2), Num(2))
  /\ \E p \in Probes :
        /\ transformPoint(Matrix, p)
             = transformPoint(OpMatrix(last), transformPoint(prior, p))
        /\ transformPoint(Matrix, p)
             # transformPoint(prior, transformPoint(OpMatrix(last), p))

\* a Pre variant was called and the two orders differ for some point
C12_WitnessPre ==
  /\ last[1] \in PreOps
  /\ FiniteMatrix(prior)
  /\ \E p \in Probes :
        /\ transformPoint(Matrix, p)
             = transformPoint(prior, transformPoint(OpMatrix(last), p))
        /\ transformPoint(Matrix, p)
             # transformPoint(OpMatrix(last), transformPoint(prior, p))

\* the difference of a coordinate that counts as rounding where a point is
\* mapped to q: two steps of the number grid, and an eighth of the size of
\* q, which covers the products of sines that are rounded to the grid
Tolerance(q) ==
  2 + ((IF q.x < 0 THEN 0 - q.x ELSE q.x)
       + (IF q.y < 0 THEN 0 - q.y ELSE q.y)
       + (IF q.z < 0 THEN 0 - q.z ELSE q.z)) \div 8

\* |a - b| <= tol, for finite numbers
Near(a, b, tol) == IsFin(a) /\ IsFin(b) /\ a - b <= tol /\ b - a <= tol
NearPoints(p, q) ==
  /\ IsFin(q.x) /\ IsFin(q.y) /\ IsFin(q.z)
  /\ \A tol \in {Tolerance(q)} :
        Near(p.x, q.x, tol) /\ Near(p.y, q.y, tol) /\ Near(p.z, q.z, tol)

\* C13: rotateX(a) followed by rotateX(-a) leaves the mapping of a finite
\* transform unchanged: a point is mapped where it was mapped before the two
\* calls, exactly for the angles whose sines are whole numbers and within
\* tolerance for the others.
C13_RotateXRoundTrip ==
  [][(/\ last[1] = "rotateX" /\ last'[1] = "rotateX"
      /\ last'[2] = Neg(last[2])
      /\ FiniteMatrix(prior)) =>
       \A m \in {MatrixOf(r'.transform, transforms', matrices')} :
         \A p \in Probes :
           IF WholeMatrix(OpMatrix(last'))
           THEN transformPoint(m, p) = transformPoint(prior, p)
           ELSE NearPoints(transformPoint(m, p), transformPoint(prior, p))]_vars

\* scale(2, 2, 2), rotateX(a) and rotateX(-a) were called, a a half of a
\* quarter turn, and the points are mapped where scale alone mapped them
C13_Witness ==
  /\ last = <<"rotateX", Neg(QuarterTurn \div 2)>>
  /\ prior = Transform_rotateX(makeScaleAffine(Num(2), Num(2), Num(2)),
                               QuarterTurn \div 2)
  /\ \A p \in Probes :
        NearPoints(transformPoint(Matrix, p),
                   transformPoint(makeScaleAffine(Num(2), Num(2), Num(2)), p))

\* the 4x4 product of the operations of the Transform t is the matrix that
\* the 12 stored coefficients of t stand for, with the fourth row 0, 0, 0, 1
AffineStructure(t) ==
  /\ Full(matrices[transforms[t].m]) = transforms[t].full
  /\ transforms[t].full[4] = <<0, 0, 0, Unit>>

\* C14, for finite coefficients: after any sequence of operations, a
\* Transform whose stored coefficients are all finite holds the top three
\* rows of the 4x4 product of the operations' matrices, and the fourth row of
\* that product is 0, 0, 0, 1.
C14_AffineWhenFinite ==
  \A t \in DOMAIN transforms :
    FiniteMatrix(matrices[transforms[t].m]) => AffineStructure(t)

\* C14, as it is stated: the same of every Transform, whatever its
\* coefficients.
C14_AffineAlways == \A t \in DOMAIN transforms : AffineStructure(t)

\* three operations were composed into a finite matrix that is neither the
\* identity nor free of translation
C14_Witness ==
  /\ nops = MaxTransformOps
  /\ r.transform # Undefined
  /\ last[1] \in PostOps \cup PreOps \cup {"multTransform"}
  /\ FiniteMatrix(Matrix)
  /\ <<Matrix.e3, Matrix.e7, Matrix.e11>> # <<0, 0, 0>>
  /\ <<Matrix.e0, Matrix.e5, Matrix.e10>> # <<Unit, Unit, Unit>>
  /\ AffineStructure(r.transform)

----
\* Properties of ShapeUtils

\* the metadata of the face qf is what its vertices in vs give: the centroid
\* is their sum times 1 / 3 or 1 / 4, normal1 is (v1 - v0) x (v2 - v0), and
\* normal2 is normal1 on a triangle and (v2 - v0) x (v3 - v0) on a quad
MetaOfVertices(qf, vs) ==
  \A v0 \in {At(vs, qf.i0)} : \A v1 \in {At(vs, qf.i1)} :
  \A v2 \in {At(vs, qf.i2)} :
    /\ qf.normal1 = crossProduct(subPoints3d(v1, v0), subPoints3d(v2, v0))
    /\ IF qf.i3 = null
       THEN /\ qf.normal2 = qf.normal1
            /\ \A f \in {Div(Unit, Num(3))} :
                 qf.centroid = P3(Mul(Add(Add(v0.x, v1.x), v2.x), f),
                                  Mul(Add(Add(v0.y, v1.y), v2.y), f),
                                  Mul(Add(Add(v0.z, v1.z), v2.z), f))
       ELSE \A v3 \in {At(vs, qf.i3)} : \A f \in {Div(Unit, Num(4))} :
            /\ qf.normal2 =
                 crossProduct(subPoints3d(v2, v0), subPoints3d(v3, v0))
            /\ qf.centroid =
                 P3(Mul(Add(Add(Add(v0.x, v1.x), v2.x), v3.x), f),
                    Mul(Add(Add(Add(v0.y, v1.y), v2.y), v3.y), f),
                    Mul(Add(Add(Add(v0.z, v1.z), v2.z), v3.z), f))

\* the indices of the faces of a shape, in the order of the faces
Indices(shape) ==
  [i \in DOMAIN shape.quads |->
     <<shape.quads[i].i0, shape.quads[i].i1, shape.quads[i].i2,
       shape.quads[i].i3>>]

\* C15: rebuildMeta leaves the vertices and the indices of the faces as they
\* are and gives every face the centroid and the normals of its vertices.
C15_MetaRebuilt ==
  [][last'[1] = "rebuildMeta" =>
       /\ mesh'.vertices = mesh.vertices
       /\ Indices(mesh') = Indices(mesh)
       /\ \A i \in DOMAIN mesh'.quads :
            MetaOfVertices(mesh'.quads[i], mesh'.vertices)]_vars

\* rebuildMeta was called on the box whose vertices the page had moved: its
\* six quads have the metadata of the moved vertices
C15_Witness ==
  /\ last[1] = "rebuildMeta"
  /\ Len(mesh.quads) = 6
  /\ allQuads(mesh)
  /\ mesh.vertices # makeBox(Unit, 2 * Unit, Unit).vertices
  /\ mesh.quads # makeBox(Unit, 2 * Unit, Unit).quads
  /\ \A i \in DOMAIN mesh.quads : MetaOfVertices(mesh.quads[i], mesh.vertices)

\* rebuildMeta was called on a shape that has a triangle and a quad whose two
\* normals differ
C15_WitnessMixed ==
  /\ last[1] = "rebuildMeta"
  /\ \E i \in DOMAIN mesh.quads : isTriangle(mesh.quads[i])
  /\ \E i \in DOMAIN mesh.quads :
        /\ ~isTriangle(mesh.quads[i])
        /\ mesh.quads[i].normal1 # mesh.quads[i].normal2

\* C16: triangulate is idempotent: on the shape that triangulate returned, a
\* second triangulate returns the same faces (count and indices) and the
\* same vertex positions.
C16_TriangulateIdempotent ==
  last[1] = "triangulate" =>
    \A twice \in {triangulate(mesh)} :
      /\ Len(twice.quads) = Len(mesh.quads)
      /\ Indices(twice) = Indices(mesh)
      /\ twice.vertices = mesh.vertices

\* triangulate was called on the box and split its six quads
C16_Witness ==
  /\ last[1] = "triangulate"
  /\ Len(mesh.quads) = 12
  /\ Len(mesh.vertices) = 8
  /\ \A i \in DOMAIN mesh.quads : isTriangle(mesh.quads[i])

\* the edges of the quads of a shape, as sets of two vertex indices, and the
\* vertex sets of its quads
Edges(shape) ==
  UNION { { {q.i0, q.i1}, {q.i1, q.i2}, {q.i2, q.i3}, {q.i3, q.i0} } :
          q \in Range(shape.quads) }
FaceSets(shape) == { {q.i0, q.i1, q.i2, q.i3} : q \in Range(shape.quads) }

RECURSIVE SumOfVertices(_, _)
\* the sum of the vertices of vs whose indices are in S
SumOfVertices(S, vs) ==
  IF S = {} THEN P3(0, 0, 0)
  ELSE LET k == CHOOSE k \in S : TRUE
       IN addPoints3d(SumOfVertices(S \ {k}, vs), At(vs, k))
\* their average
AverageOfVertices(S, vs) ==
  mulPoint3d(SumOfVertices(S, vs), Div(Unit, Num(Cardinality(S))))

\* C17: one pass of linearSubdivide on a shape of F quads and V vertices
\* gives 4F faces, keeps the V vertices and adds one vertex for every edge
\* and one for every vertex set of a face, at the average of the vertices it
\* comes from; the cube gets 24 faces and 26 vertices.
C17_SubdivideShares ==
  [][last'[1] = "linearSubdivide" =>
       \A V \in {Len(mesh.vertices)} :
       \A sources \in {Edges(mesh) \cup FaceSets(mesh)} :
         /\ Len(mesh'.quads) = 4 * Len(mesh.quads)
         /\ Len(mesh'.vertices) = V + Cardinality(sources)
         /\ SubSeq(mesh'.vertices, 1, V) = mesh.vertices
         /\ \A S \in sources :
              \E k \in (V + 1)..Len(mesh'.vertices) :
                mesh'.vertices[k] = AverageOfVertices(S, mesh.vertices)
         /\ \A k \in (V + 1)..Len(mesh'.vertices) :
              \E S \in sources :
                mesh'.vertices[k] = AverageOfVertices(S, mesh.vertices)
         /\ last[1] = "makeCube" =>
              Len(mesh'.quads) = 24 /\ Len(mesh'.vertices) = 26]_vars

\* linearSubdivide was called on the cube: 8 corners, 12 edge midpoints
\* and 6 face centres, and 24 quads
C17_Witness ==
  /\ last[1] = "linearSubdivide"
  /\ nops = 2
  /\ Len(mesh.quads) = 24
  /\ Len(mesh.vertices) = 26
  /\ SubSeq(mesh.vertices, 1, 8) = makeCube(Unit).vertices

\* the corners of a face, in order
Corners(qf) ==
  IF qf.i3 = null THEN <<qf.i0, qf.i1, qf.i2>>
  ELSE <<qf.i0, qf.i1, qf.i2, qf.i3>>

\* the faces of the shape that the Extruder e selects
SelectedFaces(e, shape) ==
  {i \in 0..(Len(shape.quads) - 1) : CallSelector(e.selector_, shape, i)}

\* how many vertices, and how many faces, extrude appends for the selected
\* faces before face i: count_ times 3 for a triangle and 4 for a quad
AppendedBefore(e, shape, i) ==
  e.count_ *
    ((3 * Cardinality({j \in SelectedFaces(e, shape) :
                         j < i /\ isTriangle(At(shape.quads, j))}))
     + (4 * Cardinality({j \in SelectedFaces(e, shape) :
                           j < i /\ ~isTriangle(At(shape.quads, j))})))

\* the corners of the selected face i after step z of its extrusion: its own
\* at z = 0, then the vertices that step z appended
StepCorners(e, shape, i, z) ==
  IF z = 0 THEN Corners(At(shape.quads, i))
  ELSE LET n == Len(Corners(At(shape.quads, i)))
           b == Len(shape.vertices) + AppendedBefore(e, shape, i) + ((z - 1) * n)
       IN [k \in 1..n |-> b + (k - 1)]

\* C18: extrude with count_ = c appends 4c side faces and 4c vertices for
\* every selected quad and 3c and 3c for every selected triangle, and nothing
\* else; it leaves the vertices there were and the indices of the faces that
\* are not selected; a selected face keeps its place and its kind and has
\* the vertices of its last step as corners; the side faces of a step join
\* two neighbouring corners of the step before to the two new ones.
C18_ExtrudeCounts ==
  [][last'[1] = "extrude" =>
       \A V \in {Len(mesh.vertices)} : \A F \in {Len(mesh.quads)} :
       \A total \in {AppendedBefore(ex, mesh, F)} :
         /\ Len(mesh'.vertices) = V + total
         /\ Len(mesh'.quads) = F + total
         /\ SubSeq(mesh'.vertices, 1, V) = mesh.vertices
         /\ \A i \in 0..(F - 1) :
              IF i \in SelectedFaces(ex, mesh)
              THEN \A n \in {Len(Corners(At(mesh.quads, i)))} :
                   /\ Corners(At(mesh'.quads, i))
                        = StepCorners(ex, mesh, i, ex.count_)
                   /\ \A z \in 1..ex.count_ : \A k \in 1..n :
                        Corners(At(mesh'.quads,
                                   F + AppendedBefore(ex, mesh, i)
                                     + ((z - 1) * n) + (k - 1)))
                          = << StepCorners(ex, mesh, i, z - 1)[(k % n) + 1],
                               StepCorners(ex, mesh, i, z)[(k % n) + 1],
                               StepCorners(ex, mesh, i, z)[k],
                               StepCorners(ex, mesh, i, z - 1)[k] >>
              ELSE Corners(At(mesh'.quads, i)) = Corners(At(mesh.quads, i))]_vars

\* extrude ran with two steps on the first face only of a shape of several
\* faces: 8 vertices and 8 faces more than the box had
C18_Witness ==
  /\ last[1] = "extrude"
  /\ ex.count_ = 2
  /\ ex.selector_ = selectFirst
  /\ Len(mesh.quads) = 6 + 8
  /\ Len(mesh.vertices) = 8 + 8
  /\ Corners(At(mesh.quads, 0)) = <<12, 13, 14, 15>>

\* extrude ran on every face of a shape of triangles
C18_WitnessTriangles ==
  /\ last[1] = "extrude"
  /\ ex.selector_ = selectAll
  /\ Len(mesh.quads) = 8 + (3 * 8)
  /\ Len(mesh.vertices) = 6 + (3 * 8)
  /\ isTriangle(At(mesh.quads, 7))

\* the faces of a shape that have the vertex v as a corner
FacesAt(shape, v) ==
  {j \in 0..(Len(shape.quads) - 1) :
     \E k \in DOMAIN Corners(At(shape.quads, j)) :
       Corners(At(shape.quads, j))[k] = v}

\* the centroid of face j: the sum of its 3 or 4 vertices, divided by 3 or 4
CentroidOfFace(shape, j) ==
  LET Over(c) ==
        LET Quotient(sum, n) == P3(Div(sum.x, n), Div(sum.y, n), Div(sum.z, n))
        IN Quotient(SumPoints([k \in DOMAIN c |-> At(shape.vertices, c[k])], 1),
                    Num(Len(c)))
  IN Over(Corners(At(shape.quads, j)))

RECURSIVE SumOfCentroids(_, _)
\* the sum of the centroids of the faces in S
SumOfCentroids(S, shape) ==
  IF S = {} THEN P3(0, 0, 0)
  ELSE LET j == CHOOSE j \in S : TRUE
       IN addPoints3d(SumOfCentroids(S \ {j}, shape), CentroidOfFace(shape, j))

\* every vertex of after is the average of the centroids that the faces at
\* it have in before
SmoothedFrom(before, after) ==
  /\ Len(after.vertices) = Len(before.vertices)
  /\ \A v \in 0..(Len(before.vertices) - 1) :
       \A at \in {FacesAt(before, v)} :
         At(after.vertices, v)
           = mulPoint3d(SumOfCentroids(at, before),
                        Div(Unit, Num(Cardinality(at))))

\* every vertex of the shape is a corner of a face
AllReferenced(shape) ==
  \A v \in 0..(Len(shape.vertices) - 1) : FacesAt(shape, v) # {}

\* C19, as it is stated: on a shape of quads and triangles with every vertex
\* referenced, averageSmooth(shape, 1) sets every vertex to the average of
\* the centroids of the faces at it, computed from the positions before the
\* call.
C19_SmoothedToCentroids ==
  [][(/\ last' = <<"averageSmooth", Unit>>
      /\ AllReferenced(mesh)) => SmoothedFrom(mesh, mesh')]_vars

\* the same on shapes whose faces are all quads
C19_QuadsSmoothedToCentroids ==
  [][(/\ last' = <<"averageSmooth", Unit>>
      /\ allQuads(mesh)
      /\ AllReferenced(mesh)) => SmoothedFrom(mesh, mesh')]_vars

\* averageSmooth(shape, 1) was called on the box and moved its corners
C19_WitnessQuads ==
  /\ last = <<"averageSmooth", Unit>>
  /\ nops = 2
  /\ Len(mesh.quads) = 6
  /\ allQuads(mesh)
  /\ SmoothedFrom(makeBox(Unit, 2 * Unit, Unit), mesh)
  /\ mesh.vertices # makeBox(Unit, 2 * Unit, Unit).vertices

\* every coordinate of every vertex of the shape is a finite number
FiniteVertices(shape) ==
  \A v \in DOMAIN shape.vertices :
    IsFin(shape.vertices[v].x) /\ IsFin(shape.vertices[v].y)
      /\ IsFin(shape.vertices[v].z)

\* C20, as it is stated: averageSmooth(shape, 0) leaves every vertex of any
\* shape where it was, and the faces as they were.
C20_ZeroSmoothChangesNothing ==
  [][last' = <<"averageSmooth", 0>> =>
       /\ mesh'.vertices = mesh.vertices
       /\ Indices(mesh') = Indices(mesh)]_vars

\* the same on the shapes with finite coordinates in which every vertex is
\* the corner of a face
C20_ZeroSmoothReferenced ==
  [][(/\ last' = <<"averageSmooth", 0>>
      /\ FiniteVertices(mesh)
      /\ AllReferenced(mesh)) =>
       /\ mesh'.vertices = mesh.vertices
       /\ Indices(mesh') = Indices(mesh)]_vars

\* averageSmooth(shape, 0) was called on the quad with a fifth vertex that no
\* face uses, and that vertex is NaN afterwards
C20_WitnessLoose ==
  /\ last = <<"averageSmooth", 0>>
  /\ nops = 2
  /\ Len(mesh.vertices) = 5
  /\ SubSeq(mesh.vertices, 1, 4)
       = << P3(0, 0, 0), P3(Unit, 0, 0), P3(Unit, Unit, 0), P3(0, Unit, 0) >>
  /\ mesh.vertices[5] = P3(NaN, NaN, NaN)

\* the corner slots of a shape: <<face, slot>> for every corner of every face
CornerSlots(shape) ==
  {<<j, k>> \in (0..(Len(shape.quads) - 1)) \X (1..4) :
     k <= Len(Corners(At(shape.quads, j)))}

\* C21: after explodeFaces no two corners, of two faces or of one, use the
\* same vertex index; there are as many vertices as corners; every face
\* keeps its kind, and every corner its position.
C21_ExplodedUnshared ==
  [][last'[1] = "explodeFaces" =>
       \A slots \in {CornerSlots(mesh')} :
         /\ Len(mesh'.quads) = Len(mesh.quads)
         /\ slots = CornerSlots(mesh)
         /\ Len(mesh'.vertices) = Cardinality(slots)
         /\ \A a \in slots : \A b \in slots :
              a # b => Corners(At(mesh'.quads, a[1]))[a[2]]
                         # Corners(At(mesh'.quads, b[1]))[b[2]]
         /\ \A a \in slots :
              At(mesh'.vertices, Corners(At(mesh'.quads, a[1]))[a[2]])
                = At(mesh.vertices, Corners(At(mesh.quads, a[1]))[a[2]])]_vars

\* explodeFaces was called on a shape of 12 triangles, which has 36 vertices
\* afterwards
C21_Witness ==
  /\ last[1] = "explodeFaces"
  /\ Len(mesh.quads) = 12
  /\ Len(mesh.vertices) = 36
  /\ \A i \in DOMAIN mesh.quads : isTriangle(mesh.quads[i])

\* explodeFaces was called on the box: 6 quads with 24 vertices
C21_WitnessQuads ==
  /\ last[1] = "explodeFaces"
  /\ Len(mesh.quads) = 6
  /\ Len(mesh.vertices) = 24
  /\ allQuads(mesh)

\* the screen point of point i of the circle of the scene, as drawPath
\* computes it under the transforms of the renderer
CircleScreenPoint(i) ==
  projectPointToCanvas(r,
    transformPoint(multiplyAffine(r.camera.transform, r.transform),
                   pts[At(paths[1].points, i)]))

\* the pieces of a traced path: piece j starts at the current point of the
\* canvas, which a moveTo and a curve command set to their last two arguments
TracedPieces(calls) ==
  [j \in 1..(Len(calls) - 3) |->
     [from |-> <<calls[j + 1][Len(calls[j + 1]) - 1],
                 calls[j + 1][Len(calls[j + 1])]>>,
      to |-> <<calls[j + 2][Len(calls[j + 2]) - 1],
               calls[j + 2][Len(calls[j + 2])]>>]]

\* C22: drawn by drawPath, the circle of makeCircle is traced as two cubic
\* curves, the first from the start point (the projected origin of the
\* object) to screen point 2 and the second from there to screen point 5,
\* and screen point 5 is the start point: the loop closes at point index 5,
\* the point (0, 0, 0) of the circle
C22_CircleClosesAtLastPoint ==
  (last[1] = "drawPath" /\ last[2] = 1) =>
    \A tr \in {TracedPieces(ctx)} :
      /\ Len(tr) = 2
      /\ ctx[3][1] = "bezierCurveTo" /\ ctx[4][1] = "bezierCurveTo"
      /\ tr[1].from = <<ctx[2][2], ctx[2][3]>>
      /\ tr[1].to = <<CircleScreenPoint(2).x, CircleScreenPoint(2).y>>
      /\ tr[2].from = tr[1].to
      /\ tr[2].to = <<CircleScreenPoint(5).x, CircleScreenPoint(5).y>>
      /\ tr[2].to = tr[1].from

\* C22 as stated: the loop closes at point index 0, so the point where the
\* tracing started and ended is screen point 0
C22_CircleClosesAtPointZero ==
  (last[1] = "drawPath" /\ last[2] = 1) =>
    \A tr \in {TracedPieces(ctx)} :
      /\ Len(tr) = 2
      /\ tr[2].from = tr[1].to
      /\ tr[2].to = tr[1].from
      /\ tr[2].to = <<CircleScreenPoint(0).x, CircleScreenPoint(0).y>>

\* the circle was drawn in front of a camera that was moved back: the start
\* point is a finite point of the canvas, the first curve leaves it, the
\* second comes back to it, and screen point 0 is another point
C22_Witness ==
  /\ last[1] = "drawPath" /\ last[2] = 1
  /\ ctx[2][1] = "moveTo"
  /\ IsFin(ctx[2][2]) /\ IsFin(ctx[2][3])
  /\ IsFin(ctx[3][6]) /\ IsFin(ctx[3][7])
  /\ <<ctx[3][6], ctx[3][7]>> # <<ctx[2][2], ctx[2][3]>>
  /\ IsFin(CircleScreenPoint(0).x) /\ IsFin(CircleScreenPoint(0).y)
  /\ <<CircleScreenPoint(0).x, CircleScreenPoint(0).y>> # <<ctx[2][2], ctx[2][3]>>
  /\ <<ctx[4][6], ctx[4][7]>> = <<ctx[2][2], ctx[2][3]>>

----
\* PathUtils.fitQuadraticToPoints (src/pre3d_path_utils.js 89-98), called as
\* the attractor page calls it when it builds its Path (src/unnamed/part_003
\* 30-51): every step takes two new points p1 and p2 and stores the control
\* point of a quadratic curve from the previous end point p0 to p2.

\* how many curves the page puts into its Path (N)
MaxFitSteps == 3

\* the points step() returns
FitPoints ==
  { P3(0, 0, 0),
    P3(Num(1), Unit \div 4, Num(0 - 2)),
    P3(0 - (3 * Unit) \div 4, Num(2), Unit \div 2) }

\* a faulty fit that leaves out the factor 0.5
fitQuadraticToPoints_whole(p0, p1, p2) ==
  P3(Sub(Add(p1.x, p1.x), Add(p0.x, p2.x)),
     Sub(Add(p1.y, p1.y), Add(p0.y, p2.y)),
     Sub(Add(p1.z, p1.z), Add(p0.z, p2.z)))
fitQuadraticToPoints(p0, p1, p2) ==
  P3(Sub(Add(p1.x, p1.x), Mul(Unit \div 2, Add(p0.x, p2.x))),
     Sub(Add(p1.y, p1.y), Mul(Unit \div 2, Add(p0.y, p2.y))),
     Sub(Add(p1.z, p1.z), Mul(Unit \div 2, Add(p0.z, p2.z))))

\* the page before the loop: path.points has 2N + 1 slots, the last of them
\* holds the first point p0 and is the starting point
InitFit ==
  /\ ticker = Ticker(30, "spin_and_draw")
  /\ timers = [active |-> {}, created |-> 0]
  /\ ticks = << >>
  /\ \E p0 \in FitPoints : pts = << p0 >>
  /\ paths = << Path([k \in 1..(2 * MaxFitSteps + 1) |->
                        IF k = 2 * MaxFitSteps + 1 THEN 1 ELSE Undefined],
                     << >>, 2 * MaxFitSteps) >>
  /\ faces = << >>
  /\ rgba = << >>
  /\ textures = << >>
  /\ shapes = << >>
  /\ mesh = Shape(<< >>, << >>)
  /\ ex = Extruder
  /\ ctx = << >>
  /\ buffered = << >>
  /\ drawn = << >>
  /\ last = <<"new", null>>
  /\ nops = 0
  /\ \E canvas \in CanvasSizes : r = Renderer(canvas)
  /\ transforms = << >>
  /\ matrices = << >>
  /\ pushed = << >>
  /\ prior = null

\* one round of the loop, step() returning the points v1 and v2: curve i is
\* quadratic, ends at slot 2i and has its control point in slot 2i + 1
FitStep(v1, v2) ==
  LET path == paths[1]
      i == Len(path.curves)
      p0 == IF i = 0 THEN At(path.points, path.starting_point)
            ELSE At(path.points, 2 * (i - 1))
      ids == NewIds(pts, 3)
  IN /\ i < MaxFitSteps
     /\ nops' = nops + 1
     /\ last' = <<"fitQuadraticToPoints", <<p0, ids[1], ids[2]>>, ids[3]>>
     /\ pts' = Alloc(pts, ids,
                     <<v1, v2, fitQuadraticToPoints(pts[p0], v1, v2)>>)
     /\ paths' = << [path EXCEPT
                       !.curves = Append(@, Curve(i * 2, i * 2 + 1, null)),
                       !.points = [@ EXCEPT ![i * 2 + 2] = ids[3],
                                            ![i * 2 + 1] = ids[2]]] >>
     /\ UNCHANGED <<faces, rgba, textures, shapes, r, mesh, ex, ctx,
                    buffered, drawn, xf, clock>>

NextFit == \E v1 \in FitPoints : \E v2 \in FitPoints : FitStep(v1, v2)

SpecFit == InitFit /\ [][NextFit]_vars

\* the point at parameter t of the quadratic bezier curve from p0 to p2 with
\* the control point c: (1 - t)^2 p0 + 2 (1 - t) t c + t^2 p2
QuadraticBezierAt(p0, c, p2, t) ==
  LET u == Sub(Unit, t)
      W(a, b, d) == Add(Add(Mul(Mul(u, u), a), Mul(Mul(2 * Unit, Mul(u, t)), b)),
                        Mul(Mul(t, t), d))
  IN P3(W(p0.x, c.x, p2.x), W(p0.y, c.y, p2.y), W(p0.z, c.z, p2.z))

\* C23: fitQuadraticToPoints(p0, p1, p2) returns, per coordinate,
\* 2 p1 - 0.5 (p0 + p2); the quadratic bezier curve from p0 to p2 with that
\* control point is at p1 at parameter 0.5; and p0, p1 and p2 are as they
\* were.
C23_FitPassesThroughP1 ==
  [][last'[1] = "fitQuadraticToPoints" =>
       LET p0 == pts'[last'[2][1]]
           p1 == pts'[last'[2][2]]
           p2 == pts'[last'[2][3]]
           c == pts'[last'[3]]
           Control(a, b, d) == Sub(Mul(2 * Unit, b), Mul(Unit \div 2, Add(a, d)))
       IN /\ c = P3(Control(p0.x, p1.x, p2.x), Control(p0.y, p1.y, p2.y),
                    Control(p0.z, p1.z, p2.z))
          /\ QuadraticBezierAt(p0, c, p2, Unit \div 2) = p1
          /\ \A k \in DOMAIN pts : pts'[k] = pts[k]
          /\ last'[3] \notin DOMAIN pts]_vars

\* the fit was called with three different points that are not on one line:
\* the control point is none of them
C23_Witness ==
  /\ last[1] = "fitQuadraticToPoints"
  /\ Cardinality({pts[last[2][1]], pts[last[2][2]], pts[last[2][3]],
                  pts[last[3]]}) = 4
  /\ pts[last[2][2]] # P3(0, 0, 0)
  /\ nops = MaxFitSteps

----
\* Properties of the projection

\* camera-space points on the axis of the camera, in front of it
AxisPoints == {P3(0, 0, 0 - d) : d \in {Unit \div 2, Unit, 3 * Unit, 8 * Unit}}

\* camera-space points above the axis (y > 0), in front of the camera and
\* behind it
PointsAbove ==
  {P3(x, y, z) : x \in {0 - Unit, 0, 2 * Unit}, y \in {Unit, 3 * Unit},
                 z \in {0 - 4 * Unit, 0 - Unit, 0 - (Unit \div 2),
                        Unit, 2 * Unit}}

\* the centre of the canvas as the Renderer was constructed on it
Centre == P2(Div(r.width_, Num(2)), Div(r.height_, Num(2)))

\* the origin of the object in camera space, where drawPath starts a path
\* that has no starting point
CameraSpaceOrigin ==
  transformPoint(multiplyAffine(r.camera.transform, r.transform), P3(0, 0, 0))

C24_WitnessFlip ==
  /\ last[1] = "drawPath" /\ last[2] = 2
  /\ ctx[3][1] = "quadraticCurveTo"
  /\ ctx[3][2] = Centre.x
  /\ IsFin(ctx[3][3]) /\ ctx[3][3] < Centre.y

----
\* Properties of what drawBuffer strokes

\* The current path of the canvas after the first n of the calls: beginPath
\* empties it, moveTo and lineTo add a point, closePath closes it, and save
\* and restore leave it alone, as the path is no part of the saved state.
RECURSIVE PathAfter(_, _)
PathAfter(calls, n) ==
  IF n = 0 THEN [points |-> << >>, closed |-> FALSE]
  ELSE LET before == PathAfter(calls, n - 1)
           c == calls[n]
       IN IF c[1] = "beginPath" THEN [points |-> << >>, closed |-> FALSE]
          ELSE IF c[1] \in {"moveTo", "lineTo"}
          THEN [before EXCEPT !.points = Append(@, <<c[2], c[3]>>)]
          ELSE IF c[1] = "closePath" THEN [before EXCEPT !.closed = TRUE]
          ELSE before

\* the index of the first call of that name among the calls, 0 if none
FirstCall(calls, name) ==
  IF \E n \in DOMAIN calls : calls[n][1] = name
  THEN CHOOSE n \in DOMAIN calls :
         /\ calls[n][1] = name
         /\ \A m \in 1..(n - 1) : calls[m][1] # name
  ELSE 0

\* the projected polygon of a drawn face, as drawBuffer traced it
PolygonOf(d) ==
  [k \in 1..Len(d.zs) |-> <<d.calls[k + 1][2], d.calls[k + 1][3]>>]

\* fill, texture, stroke and normal lines come in that order
EmittedInOrder(calls) ==
  \A a \in DOMAIN calls : \A b \in DOMAIN calls :
    /\ (calls[a][1] = "fill" /\ calls[b][1] \in {"drawImage", "stroke"})
         => a < b
    /\ (calls[a][1] = "drawImage" /\ calls[b][1] = "stroke") => a < b
    /\ (calls[a][1] = "closePath" /\ calls[b][1] = "stroke"
          /\ calls[b - 1][1] = "lineTo") => a < b

\* C25: for every face drawn whose captured stroke colour is not null, the
\* path drawBuffer strokes is the closed polygon of the face, its 3 or 4
\* projected vertices, with or without a fill colour and a texture; and
\* fill, texture, stroke and normal lines are emitted in that order.
C25_StrokesOwnPolygon ==
  last[1] = "drawBuffer" =>
    \A i \in DOMAIN drawn :
      /\ EmittedInOrder(drawn[i].calls)
      /\ drawn[i].obj.stroke_rgba # null =>
           PathAfter(drawn[i].calls, FirstCall(drawn[i].calls, "stroke"))
             = [points |-> PolygonOf(drawn[i]), closed |-> TRUE]

\* what the code does: the stroke follows the path that is current, which
\* is the polygon of the face when it has no texture, and the last triangle
\* drawCanvasTexturedTriangle clipped to when it has one: the triangle
\* itself, or the second half (i0, i2, i3) of a quad
C25_StrokesCurrentPath ==
  last[1] = "drawBuffer" =>
    \A i \in DOMAIN drawn :
      /\ EmittedInOrder(drawn[i].calls)
      /\ drawn[i].obj.stroke_rgba # null =>
           \A poly \in {PolygonOf(drawn[i])} :
             PathAfter(drawn[i].calls, FirstCall(drawn[i].calls, "stroke"))
               = [points |-> IF drawn[i].obj.texture # null /\ Len(poly) = 4
                             THEN <<poly[1], poly[3], poly[4]>>
                             ELSE poly,
                  closed |-> TRUE]

\* a quad with a stroke colour, a fill colour and a texture was drawn, and
\* the path stroked has 3 points
C25_WitnessTexturedQuad ==
  /\ last[1] = "drawBuffer"
  /\ \E i \in DOMAIN drawn :
       /\ drawn[i].obj.stroke_rgba # null
       /\ drawn[i].obj.texture # null
       /\ drawn[i].obj.fill_rgba # null
       /\ Len(drawn[i].zs) = 4
       /\ Len(PathAfter(drawn[i].calls,
                        FirstCall(drawn[i].calls, "stroke")).points) = 3

\* a triangle with a stroke colour and a texture, and a quad with a stroke
\* colour and no texture, were drawn
C25_WitnessOwnPolygon ==
  /\ last[1] = "drawBuffer"
  /\ \E i \in DOMAIN drawn :
       /\ drawn[i].obj.stroke_rgba # null
       /\ \/ (drawn[i].obj.texture # null /\ Len(drawn[i].zs) = 3)
          \/ (drawn[i].obj.texture = null /\ Len(drawn[i].zs) = 4)

----
\* Properties of the quad callback

\* C26: a bufferShape called with quad_callback set calls it once for every
\* face of the shape, in the order of the face indices, with the face, its
\* index and the shape, also for the faces it then culls; it skips a face
\* exactly when the call returned true; and every entry it adds holds the
\* fill colour, the stroke colour and the texture the renderer has after the
\* call for that face.
C26_CallbackPerFace ==
  [][(last'[1] = "bufferShape" /\ r.quad_callback # null) =>
       \A shape \in {shapes[last'[2]]} :
         /\ Len(buffered') = Len(shape.quads)
         /\ \A k \in DOMAIN buffered' :
              \A b \in {buffered'[k]} :
                \A cb \in {CallQuadCallback(r.quad_callback, r, k - 1)} :
                  /\ b.j = k - 1
                  /\ b.calls = << [qf |-> At(shape.quads, k - 1), j |-> k - 1,
                                   shape |-> shape, ret |-> cb.ret] >>
                  /\ (b.outcome = "skipped") <=> (cb.ret = "true")
                  /\ b.outcome = "added" =>
                       \E e \in DOMAIN r'.buffered_quads_ :
                         /\ e > Len(r.buffered_quads_)
                         /\ r'.buffered_quads_[e].qf = b.qf
                         /\ r'.buffered_quads_[e].fill_rgba = cb.r.fill_rgba
                         /\ r'.buffered_quads_[e].stroke_rgba = cb.r.stroke_rgba
                         /\ r'.buffered_quads_[e].texture = cb.r.texture]_vars

\* a bufferShape whose callback returned 1 for a face that was added with
\* the texture the callback chose for it, and chose another texture for the
\* next face, which was added with that one
C26_Witness ==
  /\ last[1] = "bufferShape"
  /\ Len(buffered) = 2
  /\ buffered[1].calls # << >> /\ buffered[1].calls[1].ret = "1"
  /\ buffered[1].outcome = "added" /\ buffered[2].outcome = "added"
  /\ \E e \in DOMAIN r.buffered_quads_ :
       /\ r.buffered_quads_[e].qf = buffered[1].qf
       /\ r.buffered_quads_[e].texture = 1
       /\ r.buffered_quads_[e].stroke_rgba = 2
       /\ r.buffered_quads_[e].fill_rgba = null
  /\ \E e \in DOMAIN r.buffered_quads_ :
       /\ r.buffered_quads_[e].qf = buffered[2].qf
       /\ r.buffered_quads_[e].texture = 2
       /\ r.buffered_quads_[e].fill_rgba = 1

\* a bufferShape whose callback was called for a face that was then culled
C26_WitnessCulled ==
  /\ last[1] = "bufferShape"
  /\ \E k \in DOMAIN buffered :
       /\ buffered[k].calls # << >>
       /\ buffered[k].outcome \in {"near", "backface"}

\* a bufferShape whose callback returned true for a face, which was skipped
C26_WitnessSkipped ==
  /\ last[1] = "bufferShape"
  /\ \E k \in DOMAIN buffered :
       /\ buffered[k].calls # << >>
       /\ buffered[k].calls[1].ret = "true"
       /\ buffered[k].outcome = "skipped"

----
\* Properties of triangulate

\* the positions of the quads of a shape, in the order of the faces
QuadPositions(shape) ==
  SelectSeq([k \in DOMAIN shape.quads |-> k],
            LAMBDA k : ~isTriangle(shape.quads[k]))

\* C27: triangulate leaves every triangle where and as it is, makes every
\* quad (i0, i1, i2, i3) the triangle (i0, i1, i2) at the place of the quad
\* and appends the triangle (i0, i2, i3), the triangles of the quads in the
\* order of the quads; afterwards every face is a triangle, there are
\* T + 2 Q faces, the vertices are as they were, and every face has the
\* metadata rebuildMeta gives it.
C27_TriangulateSplits ==
  [][last'[1] = "triangulate" =>
       \A qp \in {QuadPositions(mesh)} :
         /\ Len(mesh'.quads) = (Len(mesh.quads) - Len(qp)) + 2 * Len(qp)
         /\ mesh'.vertices = mesh.vertices
         /\ \A k \in DOMAIN mesh'.quads : isTriangle(mesh'.quads[k])
         /\ \A k \in DOMAIN mesh.quads :
              Indices(mesh')[k] = <<mesh.quads[k].i0, mesh.quads[k].i1,
                                    mesh.quads[k].i2, null>>
         /\ \A n \in DOMAIN qp :
              Indices(mesh')[Len(mesh.quads) + n]
                = <<mesh.quads[qp[n]].i0, mesh.quads[qp[n]].i2,
                    mesh.quads[qp[n]].i3, null>>
         /\ \A k \in DOMAIN mesh'.quads :
              MetaOfVertices(mesh'.quads[k], mesh'.vertices)
         /\ mesh'.quads = rebuildMeta(mesh').quads]_vars

\* triangulate was called on the sphere of one ring and two slices, which
\* has triangles and quads
C27_Witness ==
  /\ last[1] = "triangulate"
  /\ \A k \in DOMAIN mesh.quads : isTriangle(mesh.quads[k])
  /\ \A sphere \in {makeSphere(Unit, 1, 2)} :
       /\ \E k \in DOMAIN sphere.quads : isTriangle(sphere.quads[k])
       /\ QuadPositions(sphere) # << >>
       /\ mesh.vertices = sphere.vertices
       /\ Len(mesh.quads) = Len(sphere.quads) + Len(QuadPositions(sphere))

----
\* Properties of the order of the draw buffer

\* the world faces the last bufferShape added, in the order of the face
\* indices
AddedFaces(bs) ==
  LET added == SelectSeq(bs, LAMBDA b : b.outcome = "added")
  IN [k \in DOMAIN added |-> added[k].qf]

\* the world faces of the entries of a buffer, in the order of the buffer
BufferFaces(arr) == [k \in DOMAIN arr |-> arr[k].qf]

C28_WitnessSorted ==
  /\ last[1] = "drawBuffer"
  /\ r.perform_z_sorting = TRUE
  /\ Len(r.buffered_quads_) >= 2
  /\ r.buffered_quads_[1].qf > r.buffered_quads_[2].qf
  /\ drawn[1].obj = r.buffered_quads_[1]

\* two bufferShape calls filled the buffer, the second behind the first
C28_WitnessTwoCalls ==
  /\ last[1] = "bufferShape"
  /\ Len(r.buffered_quads_) > Len(AddedFaces(buffered))
  /\ Len(AddedFaces(buffered)) > 0
  /\ \A a \in DOMAIN r.buffered_quads_ : \A b \in DOMAIN r.buffered_quads_ :
       a < b => r.buffered_quads_[a].qf < r.buffered_quads_[b].qf

----
\* Properties of what bufferShape reads when

\* C29: in a bufferShape, whatever its callback does to draw_backfaces,
\* quad_callback, the camera transform and renderer.transform, the callback
\* is called for every face when the renderer had one at the start, every
\* face is transformed by the product of the two transforms the renderer had
\* at the start, and back faces are culled by the draw_backfaces it had at
\* the start; while every entry added holds the fill_rgba, stroke_rgba,
\* texture, normal1_rgba, normal2_rgba and draw_overdraw the renderer has
\* after the callback was called for that face.
C29_ReadOnceAndPerFace ==
  [][last'[1] = "bufferShape" =>
       \A shape \in {shapes[last'[2]]} :
       \A t \in {multiplyAffine(r.camera.transform, r.transform)} :
         \A k \in DOMAIN buffered' :
           \A b \in {buffered'[k]} : \A qf \in {faces[shape.quads[k]]} :
             /\ Len(b.calls) = IF r.quad_callback # null THEN 1 ELSE 0
             /\ b.outcome # "skipped" =>
                  b.centroid = transformPoint(t, qf.centroid)
             /\ b.outcome \in {"added", "backface"} =>
                  ((b.outcome = "backface")
                     <=> (/\ r.draw_backfaces # TRUE
                          /\ Gt(b.dot1, 0) /\ Gt(b.dot2, 0)))
             /\ b.outcome = "added" =>
                  /\ \A w \in {faces'[b.qf]} :
                       /\ pts'[w.i0]
                            = transformPoint(t, pts[At(shape.vertices, qf.i0)])
                       /\ pts'[w.i1]
                            = transformPoint(t, pts[At(shape.vertices, qf.i1)])
                       /\ pts'[w.i2]
                            = transformPoint(t, pts[At(shape.vertices, qf.i2)])
                       /\ w.centroid = b.centroid
                  /\ \A now \in {IF r.quad_callback # null
                                  THEN CallQuadCallback(r.quad_callback, r,
                                                        k - 1).r
                                  ELSE r} :
                       \E e \in DOMAIN r'.buffered_quads_ :
                         /\ r'.buffered_quads_[e].qf = b.qf
                         /\ r'.buffered_quads_[e].fill_rgba = now.fill_rgba
                         /\ r'.buffered_quads_[e].stroke_rgba = now.stroke_rgba
                         /\ r'.buffered_quads_[e].texture = now.texture
                         /\ r'.buffered_quads_[e].normal1_rgba
                              = now.normal1_rgba
                         /\ r'.buffered_quads_[e].normal2_rgba
                              = now.normal2_rgba
                         /\ r'.buffered_quads_[e].draw_overdraw
                              = now.draw_overdraw]_vars

\* a bufferShape whose callback turned draw_backfaces on, took itself out of
\* the renderer and moved the camera at the first face: the first face was
\* still culled as a back face, the callback was still called for the second
\* face, and the second face was added without overdraw and with the colour
\* of the first normal, both set at the first face
C29_Witness ==
  /\ last[1] = "bufferShape"
  /\ r.draw_backfaces = TRUE
  /\ r.quad_callback = null
  /\ Len(buffered) = 2
  /\ buffered[1].outcome = "backface"
  /\ Len(buffered[2].calls) = 1
  /\ buffered[2].outcome = "added"
  /\ \E e \in DOMAIN r.buffered_quads_ :
       /\ r.buffered_quads_[e].qf = buffered[2].qf
       /\ r.buffered_quads_[e].draw_overdraw = FALSE
       /\ r.buffered_quads_[e].normal1_rgba = 2
  /\ buffered[2].centroid
       # transformPoint(multiplyAffine(r.camera.transform, r.transform),
                        faces[shapes[last[2]].quads[2]].centroid)

----
\* The Ticker of a page that animates (src/demos/spin_ring.js 70-82): the
\* page starts and stops it from its toolbar, the window fires the interval
\* timers that are active, one call at a time.

\* how many calls and firings a run has
MaxTicks == 5

\* a call or a firing happens
Tick(name, arg) ==
  /\ nops < MaxTicks
  /\ nops' = nops + 1
  /\ last' = <<name, arg>>
  /\ UNCHANGED <<pts, faces, rgba, textures, shapes, paths, r, mesh, ex, ctx,
                 buffered, drawn, xf>>

\* ticker.start()
Start ==
  /\ Tick("start", null)
  /\ \E res \in {Ticker_start(ticker, timers)} :
        /\ ticker' = res.ticker
        /\ timers' = res.timers
  /\ ticks' = Append(ticks, <<"start">>)

\* ticker.stop()
Stop ==
  /\ Tick("stop", null)
  /\ \E res \in {Ticker_stop(ticker, timers)} :
        /\ ticker' = res.ticker
        /\ timers' = res.timers
  /\ ticks' = Append(ticks, <<"stop">>)

\* the window fires the active interval timer handle: the function start
\* handed over runs, on the Ticker that made it
Fire(handle) ==
  /\ handle \in timers.active
  /\ Tick("fire", handle)
  /\ \E res \in {Ticker_interval(ticker)} :
        /\ ticker' = res.ticker
        /\ ticks' = Append(ticks, <<"callback", res.called>>)
  /\ UNCHANGED timers

\* ticker.set_step(step)
SetStep(step) ==
  /\ Tick("set_step", step)
  /\ ticker' = Ticker_set_step(ticker, step)
  /\ UNCHANGED <<timers, ticks>>

\* ticker.reverse_step_direction()
ReverseStepDirection ==
  /\ Tick("reverse_step_direction", null)
  /\ ticker' = Ticker_reverse_step_direction(ticker)
  /\ UNCHANGED <<timers, ticks>>

NextTicker ==
  \/ Start
  \/ Stop
  \/ \E handle \in timers.active : Fire(handle)
  \/ SetStep(2)
  \/ ReverseStepDirection

SpecTicker == Init /\ [][NextTicker]_vars

\* the start and stop calls among the first n entries of the record
StartsAndStops(n) ==
  SelectSeq(SubSeq(ticks, 1, n), LAMBDA e : e[1] \in {"start", "stop"})

\* was the last of the start and stop calls among the first n entries a
\* start
StartedAt(n) ==
  \A ss \in {StartsAndStops(n)} : ss # << >> /\ ss[Len(ss)] = <<"start">>

\* at most one interval timer is active, and it is the one the Ticker
\* holds; isRunning() is true exactly when the last of the start and stop
\* calls was a start; and every call of the callback came after a start with
\* no stop in between
AtMostOneTimer ==
  /\ Cardinality(timers.active) <= 1
  /\ timers.active = IF Ticker_isRunning(ticker)
                     THEN {ticker.interval_handle_} ELSE {}
  /\ Ticker_isRunning(ticker) <=> StartedAt(Len(ticks))
  /\ \A n \in DOMAIN ticks : ticks[n][1] = "callback" => StartedAt(n)

\* a start while running and a stop while stopped change nothing; a firing
\* calls the callback once, with t_, and then adds step_ to t_; start and
\* stop leave t_ and step_ as they are; nothing but a firing calls the
\* callback
TickerSteps ==
  /\ (last'[1] = "start" /\ Ticker_isRunning(ticker))
       => (ticker' = ticker /\ timers' = timers)
  /\ (last'[1] = "stop" /\ ~Ticker_isRunning(ticker))
       => (ticker' = ticker /\ timers' = timers)
  /\ last'[1] = "fire" =>
       /\ ticks' = Append(ticks, <<"callback", ticker.t_>>)
       /\ ticker'.t_ = ticker.t_ + ticker.step_
       /\ ticker'.interval_handle_ = ticker.interval_handle_
  /\ last'[1] \in {"start", "stop"} =>
       (ticker'.t_ = ticker.t_ /\ ticker'.step_ = ticker.step_)
  /\ last'[1] # "fire" =>
       SelectSeq(ticks', LAMBDA e : e[1] = "callback")
         = SelectSeq(ticks, LAMBDA e : e[1] = "callback")

\* C30: whatever the order of start calls, stop calls and timer firings, at
\* most one interval timer is active for the Ticker; a start while running
\* and a stop while stopped change nothing; isRunning() is true exactly from
\* a start to the next stop; the callback is called at no time between a
\* stop and the next start; and t_ is passed to the callback and then grows
\* by step_, once per firing, and is kept over stop and start.
C30_TickerDiscipline == []AtMostOneTimer /\ [][TickerSteps]_vars

\* the Ticker was started twice, fired, stopped and started again, and
\* fired with the frame number it had reached: it runs on its second timer
C30_Witness ==
  /\ ticks = << <<"start">>, <<"start">>, <<"callback", 0>>, <<"stop">>,
                <<"start">> >>
  /\ ticker.t_ = 1
  /\ Ticker_isRunning(ticker)
  /\ timers = [active |-> {2}, created |-> 2]

\* after two firings, a stop and a second stop nothing is active and the
\* frame number is kept
C30_WitnessStopped ==
  /\ ticks = << <<"start">>, <<"callback", 0>>, <<"callback", 1>>, <<"stop">>,
                <<"stop">> >>
  /\ ticker.t_ = 2
  /\ ~Ticker_isRunning(ticker)
  /\ timers.active = {}

====
